---------------------------- MODULE Spec2Model ----------------------------
(***************************************************************************)
(* Course Compass retrieval core: the table/slide aware chunker            *)
(* (backend/src/indexer.py, chunk_text) and the hybrid retriever           *)
(* (backend/src/retriever.py) together with the way backend/app.py maps    *)
(* retriever failures to HTTP statuses.                                    *)
(*                                                                         *)
(* Texts are sequences of one-character strings.  Offsets are the 0-based  *)
(* Python offsets of the source; the character at offset i of t is t[i+1]. *)
(***************************************************************************)
EXTENDS Integers, Sequences, FiniteSets, TLC

VARIABLES
    \* ---- chunk_text (indexer.py) ----
    text,            \* the document text being chunked
    chunk_size,      \* parameter chunk_size
    overlap,         \* parameter overlap
    table_ranges,    \* local table_ranges: sequence of <<start, end>>
    slide_ranges,    \* local slide_ranges: sequence of <<start, end>>
    start,           \* the cursor
    chunks,          \* local chunks: sequence of emitted (text, start, end)
    cpc,             \* "loop" while inside the while loop, "done" after return
    lastStep,        \* which branch the last iteration took, and its region end
    \* ---- the persisted index and the retriever (retriever.py, app.py) ----
    collection,           \* the persisted Chroma collection: exists, documents
    retriever_instance,   \* global _retriever_instance: loaded, documents
    index_runs,           \* number of indexer runs so far
    req,                  \* the request handled last and what the services did
    raw_vector,           \* what vector_search returned to hybrid_search
    raw_bm25,             \* what bm25_search returned to hybrid_search
    vector_results,       \* vector_results of the last hybrid_search, as merged
    bm25_results,         \* bm25_results of the last hybrid_search, as merged
    merged,               \* merged, in insertion order, before boost and clamp
    results,              \* the list returned by retrieve
    confidence,           \* the confidence returned by retrieve
    outcome,              \* "none", "ok", "ValueError" or "Exception"
    http_status,          \* status of the HTTP response, 0 before any request
    hpc,                  \* "idle", or "responding" while a handler's locals live
    \* ---- _normalize_scores on its own ----
    norm_input,           \* the results handed to _normalize_scores
    norm_output,          \* the normalized scores it returned, by position
    npc,                  \* "idle", "input", "normalized" or "renormalized"
    \* ---- concurrent retrieve calls on one Retriever ----
    calls,                \* per thread: position in retrieve and its locals
    world,                \* what the two indices answer for each query
    \* ---- store_in_chroma (indexer.py) ----
    chroma,               \* the Chroma collection: exists, entries by id
    chroma_before,        \* the collection as the running call found it
    store_chunks,         \* parameter chunks of the running call
    store_runs,           \* number of store_in_chroma calls so far
    spc,                  \* position inside store_in_chroma
    \* ---- concurrent first calls of get_retriever (retriever.py) ----
    global_instance,      \* global _retriever_instance: 0 is None, else object
    constructed,          \* number of Retriever objects constructed so far
    loaders,              \* per thread: position in get_retriever, calls made
    returns,              \* the objects get_retriever has returned so far
    \* ---- the bounded context of /chat and /debug/context (app.py) ----
    ctx_req,              \* endpoint, cap and the retrieved chunks (lengths)
    ctx_i,                \* loop index i of enumerate(top_chunks, 1)
    ctx_total,            \* local total
    ctx_blocks,           \* local blocks, each block by its length
    ctx_pc,               \* "idle", "loop", "join" or "done"
    \* ---- the answer chain of /chat (app.py) ----
    ans_req,              \* the query's kind and what each source will yield
    answer,               \* local answer: <<>> is None, <<s>> the string s
    tried,                \* the answer sources invoked so far, in order
    apc                   \* position inside the answer chain

chunkVars == <<text, chunk_size, overlap, table_ranges, slide_ranges,
               start, chunks, cpc, lastStep>>

retrVars == <<collection, retriever_instance, index_runs, req, raw_vector,
              raw_bm25, vector_results,
              bm25_results, merged, results, confidence, outcome, http_status,
              hpc>>

normVars == <<norm_input, norm_output, npc>>

concVars == <<calls, world>>

storeVars == <<chroma, chroma_before, store_chunks, store_runs, spc>>

loadVars == <<global_instance, constructed, loaders, returns>>

ctxVars == <<ctx_req, ctx_i, ctx_total, ctx_blocks, ctx_pc>>

ansVars == <<ans_req, answer, tried, apc>>

appVars == <<storeVars, loadVars, ctxVars, ansVars>>

vars == <<chunkVars, retrVars, normVars, concVars, appVars>>

\* no store_in_chroma call yet
StoreIdle ==
    /\ chroma = [exists |-> FALSE, entries |-> <<>>]
    /\ chroma_before = [exists |-> FALSE, entries |-> <<>>]
    /\ store_chunks = <<>>
    /\ store_runs = 0
    /\ spc = "idle"

\* no get_retriever call yet
LoadIdle ==
    /\ global_instance = 0
    /\ constructed = 0
    /\ loaders = <<>>
    /\ returns = {}

\* no context being built
CtxIdle ==
    /\ ctx_req = [endpoint |-> "none", cap |-> 0, top_chunks |-> <<>>]
    /\ ctx_i = 0
    /\ ctx_total = 0
    /\ ctx_blocks = <<>>
    /\ ctx_pc = "idle"

\* no answer being produced
AnsIdle ==
    /\ ans_req = <<>>
    /\ answer = <<>>
    /\ tried = <<>>
    /\ apc = "idle"

AppIdle == StoreIdle /\ LoadIdle /\ CtxIdle /\ AnsIdle

\* no _normalize_scores call on its own
NormIdle ==
    /\ norm_input = <<>>
    /\ norm_output = <<>>
    /\ npc = "idle"

\* no concurrent retrieve calls
ConcIdle ==
    /\ calls = <<>>
    /\ world = <<>>

\* no request handled yet
NoRequest == [endpoint |-> "none", query |-> <<>>, top_k |-> 0,
              dense_failed |-> FALSE, lexical_failed |-> FALSE,
              family |-> "none"]

\* the process before any indexing run and before any request
RetrieverIdle ==
    /\ collection = [exists |-> FALSE, documents |-> <<>>]
    /\ retriever_instance = [loaded |-> FALSE, documents |-> <<>>]
    /\ index_runs = 0
    /\ req = NoRequest
    /\ raw_vector = <<>>
    /\ raw_bm25 = <<>>
    /\ vector_results = <<>>
    /\ bm25_results = <<>>
    /\ merged = <<>>
    /\ results = <<>>
    /\ confidence = 0
    /\ outcome = "none"
    /\ http_status = 0
    /\ hpc = "idle"

\* no chunk_text call in progress
ChunkerIdle ==
    /\ text = <<>>
    /\ chunk_size = 1
    /\ overlap = 0
    /\ table_ranges = <<>>
    /\ slide_ranges = <<>>
    /\ start = 0
    /\ chunks = <<>>
    /\ cpc = "idle"
    /\ lastStep = [kind |-> "none", from |-> 0, region_end |-> 0]

-----------------------------------------------------------------------------
(* Bounds of the chunker model *)
MaxSegments == 3
MaxChunkSize == 12

-----------------------------------------------------------------------------
(* Characters and string helpers *)

Min(a, b) == IF a <= b THEN a ELSE b
Max(a, b) == IF a >= b THEN a ELSE b

IsDigit(c) == c \in {"0", "1", "2", "3", "4", "5", "6", "7", "8", "9"}

\* str.strip() strips the whitespace characters
IsSpace(c) == c \in {" ", "\n", "\t", "\r"}

\* Python slice t[a:b] for 0 <= a; b may exceed len(t)
Slice(t, a, b) == SubSeq(t, a + 1, Min(b, Len(t)))

\* chunk.strip() is truthy
StripNonEmpty(s) == \E i \in 1..Len(s) : ~IsSpace(s[i])

\* the literal lit occurs in t at offset p
MatchLit(t, p, lit) ==
    /\ p + Len(lit) <= Len(t)
    /\ \A i \in 1..Len(lit) : t[p + i] = lit[i]

LitTableOpen == <<"[", "T", "A", "B", "L", "E", " ">>
LitEndTable == <<"[", "E", "N", "D", " ", "T", "A", "B", "L", "E", "]">>
LitSlideOpen == <<"[", "S", "L", "I", "D", "E", " ">>

\* number of consecutive digits of t from offset p on
RECURSIVE DigitRun(_, _)
DigitRun(t, p) ==
    IF p < Len(t) /\ IsDigit(t[p + 1]) THEN 1 + DigitRun(t, p + 1) ELSE 0

\* offset of the first "]" of t at or after offset p, or -1
RECURSIVE FirstClose(_, _)
FirstClose(t, p) ==
    IF p >= Len(t) THEN -1
    ELSE IF t[p + 1] = "]" THEN p ELSE FirstClose(t, p + 1)

\* re.match of one of the three patterns at offset p: the end offset of the
\* match, or -1 when the pattern does not match there.
\*   "table": \[TABLE \d+\]     "end": \[END TABLE\]
\*   "slide": \[SLIDE \d+[^\]]*\]
MatchEnd(kind, t, p) ==
    CASE kind = "table" ->
            IF MatchLit(t, p, LitTableOpen)
            THEN LET d == DigitRun(t, p + 7)
                 IN  IF d >= 1 /\ p + 7 + d < Len(t) /\ t[p + 7 + d + 1] = "]"
                     THEN p + 7 + d + 1 ELSE -1
            ELSE -1
      [] kind = "end" ->
            IF MatchLit(t, p, LitEndTable) THEN p + Len(LitEndTable) ELSE -1
      [] kind = "slide" ->
            IF MatchLit(t, p, LitSlideOpen) /\ DigitRun(t, p + 7) >= 1
            THEN LET q == FirstClose(t, p + 8)
                 IN  IF q >= 0 THEN q + 1 ELSE -1
            ELSE -1

\* re.finditer: the non-overlapping matches, left to right, as <<start, end>>
RECURSIVE FindIter(_, _, _)
FindIter(kind, t, p) ==
    IF p >= Len(t) THEN <<>>
    ELSE LET e == MatchEnd(kind, t, p)
         IN  IF e >= 0 THEN <<<<p, e>>>> \o FindIter(kind, t, e)
             ELSE FindIter(kind, t, p + 1)

-----------------------------------------------------------------------------
(* Boundary detection of chunk_text *)

\* a pairing loop without its break: the last closing marker after start_pos
RECURSIVE LastEndAfter(_, _, _)
LastEndAfter(ends, start_pos, j) ==
    IF j > Len(ends) THEN 0
    ELSE LET k == LastEndAfter(ends, start_pos, j + 1)
         IN  IF k > 0 THEN k
             ELSE IF ends[j][1] > start_pos THEN j ELSE 0

\* index of the first closing marker that starts after start_pos, or 0
RECURSIVE FirstEndAfter(_, _, _)
FirstEndAfter(ends, start_pos, j) ==
    IF j > Len(ends) THEN 0
    ELSE IF ends[j][1] > start_pos THEN j
    ELSE FirstEndAfter(ends, start_pos, j + 1)

\* a pairing that keeps an opening marker without closing marker as a region
\* of its own
RECURSIVE PairTablesKeepOpener(_, _, _)
PairTablesKeepOpener(starts, ends, i) ==
    IF i > Len(starts) THEN <<>>
    ELSE LET j == FirstEndAfter(ends, starts[i][1], 1)
         IN  (IF j = 0 THEN <<<<starts[i][1], starts[i][2]>>>>
              ELSE <<<<starts[i][1], ends[j][2]>>>>)
             \o PairTablesKeepOpener(starts, ends, i + 1)

\* table_ranges: each opening marker paired with the first closing marker
\* after it; an opening marker without one yields no range
RECURSIVE PairTables(_, _, _)
PairTables(starts, ends, i) ==
    IF i > Len(starts) THEN <<>>
    ELSE LET j == FirstEndAfter(ends, starts[i][1], 1)
         IN  (IF j = 0 THEN <<>> ELSE <<<<starts[i][1], ends[j][2]>>>>)
             \o PairTables(starts, ends, i + 1)

TableRanges(t) ==
    PairTables(FindIter("table", t, 0), FindIter("end", t, 0), 1)

\* slide_ranges: from each slide marker to the next one, or to end of text
SlideRanges(t) ==
    LET m == FindIter("slide", t, 0)
    IN  [i \in 1..Len(m) |->
            <<m[i][1], IF i + 1 <= Len(m) THEN m[i + 1][1] ELSE Len(t)>>]

\* index of the first range of rs that holds pos, or 0
RECURSIVE FirstCovering(_, _, _)
FirstCovering(rs, pos, i) ==
    IF i > Len(rs) THEN 0
    ELSE IF rs[i][1] <= pos /\ pos < rs[i][2] THEN i
    ELSE FirstCovering(rs, pos, i + 1)

\* is_in_protected_region(pos): tables are checked before slides
is_in_protected_region(tr, sr, pos) ==
    LET i == FirstCovering(tr, pos, 1)
        j == FirstCovering(sr, pos, 1)
    IN  IF i > 0 THEN [is_protected |-> TRUE, region_type |-> "table",
                       end_pos |-> tr[i][2]]
        ELSE IF j > 0 THEN [is_protected |-> TRUE, region_type |-> "slide",
                            end_pos |-> sr[j][2]]
        ELSE [is_protected |-> FALSE, region_type |-> "none", end_pos |-> pos]

-----------------------------------------------------------------------------
(* Input texts: concatenations of at most MaxSegments segments *)

SegTable == <<"[", "T", "A", "B", "L", "E", " ", "1", "]">>
SegEnd == LitEndTable
SegSlide == <<"[", "S", "L", "I", "D", "E", " ", "2", "]">>
SegWord == <<"a", "b">>
SegBlank == <<" ", "\n">>

Segments == {SegTable, SegEnd, SegSlide, SegWord, SegBlank}

RECURSIVE TextsOfSegs(_)
TextsOfSegs(n) ==
    IF n = 0 THEN {<<>>}
    ELSE {t \o s : t \in TextsOfSegs(n - 1), s \in Segments}

Texts == UNION {TextsOfSegs(n) : n \in 0..MaxSegments}

-----------------------------------------------------------------------------
(* chunk_text: state after the boundary scan, then one action per branch   *)
(* of the while loop                                                       *)

ChunkInit ==
    /\ text \in Texts
    /\ chunk_size \in 1..MaxChunkSize
    /\ overlap \in 0..(chunk_size - 1)
    /\ table_ranges = TableRanges(text)
    /\ slide_ranges = SlideRanges(text)
    /\ start = 0
    /\ chunks = <<>>
    /\ cpc = "loop"
    /\ lastStep = [kind |-> "none", from |-> 0, region_end |-> 0]
    /\ RetrieverIdle
    /\ NormIdle
    /\ AppIdle
    /\ ConcIdle

\* an append without the chunk.strip() test
EmitUnchecked(cs, s, e) ==
    Append(cs, [text |-> Slice(text, s, e), start_char |-> s, end_char |-> e])

\* an emission that puts the new chunk in front of the list
EmitInFront(cs, s, e) ==
    IF StripNonEmpty(Slice(text, s, e))
    THEN <<[text |-> Slice(text, s, e), start_char |-> s, end_char |-> e]>> \o cs
    ELSE cs

\* if chunk.strip(): chunks.append((chunk, start, end))
Emit(cs, s, e) ==
    IF StripNonEmpty(Slice(text, s, e))
    THEN Append(cs, [text |-> Slice(text, s, e), start_char |-> s, end_char |-> e])
    ELSE cs

\* the cursor is inside a protected region: the rest of the region is one chunk
ProtectedStep ==
    /\ cpc = "loop"
    /\ start < Len(text)
    /\ LET r == is_in_protected_region(table_ranges, slide_ranges, start)
       IN  /\ r.is_protected
           /\ chunks' = Emit(chunks, start, r.end_pos)
           /\ start' = r.end_pos
           /\ lastStep' = [kind |-> "protected", from |-> start,
                           region_end |-> r.end_pos]
    /\ UNCHANGED <<text, chunk_size, overlap, table_ranges, slide_ranges, cpc>>
    /\ UNCHANGED <<retrVars, normVars, concVars, appVars>>

\* an extension to the region end without the 2 * chunk_size cap
OrdinaryEndUncapped(s) ==
    LET end == s + chunk_size
        r == is_in_protected_region(table_ranges, slide_ranges, end)
    IN  IF end < Len(text) /\ r.is_protected THEN r.end_pos ELSE end

\* the end of an ordinary chunk that starts at s
OrdinaryEnd(s) ==
    LET end == s + chunk_size
        r == is_in_protected_region(table_ranges, slide_ranges, end)
    IN  IF end < Len(text) /\ r.is_protected
        THEN Min(r.end_pos, s + chunk_size * 2)
        ELSE end

\* a cursor advance that skips the overlap instead of stepping back over it
AdvanceSkipping(s) == s + chunk_size + overlap

\* a cursor advance that steps back one character too many
AdvanceStalling(s) == s + chunk_size - overlap - 1

\* an advance measured from the end of the chunk just cut
AdvanceFromEnd(s) == OrdinaryEnd(s) - overlap

\* the advance of the cursor after an ordinary chunk
Advance(s) == s + chunk_size - overlap

OrdinaryStep ==
    /\ cpc = "loop"
    /\ start < Len(text)
    /\ ~is_in_protected_region(table_ranges, slide_ranges, start).is_protected
    /\ chunks' = Emit(chunks, start, OrdinaryEnd(start))
    /\ start' = Advance(start)
    /\ cpc' = IF start' >= Len(text) THEN "done" ELSE "loop"
    /\ lastStep' = [kind |-> "ordinary", from |-> start, region_end |-> 0]
    /\ UNCHANGED <<text, chunk_size, overlap, table_ranges, slide_ranges>>
    /\ UNCHANGED <<retrVars, normVars, concVars, appVars>>

\* the while condition fails: return chunks
ChunkReturn ==
    /\ cpc = "loop"
    /\ start >= Len(text)
    /\ cpc' = "done"
    /\ UNCHANGED <<text, chunk_size, overlap, table_ranges, slide_ranges,
                   start, chunks, lastStep>>
    /\ UNCHANGED <<retrVars, normVars, concVars, appVars>>

ChunkNext == ProtectedStep \/ OrdinaryStep \/ ChunkReturn

SpecChunk == ChunkInit /\ [][ChunkNext]_vars

\* create_chunks: the chunks of one document, numbered by enumerate
create_chunks(text_chunks) ==
    [i \in 1..Len(text_chunks) |->
        [text |-> text_chunks[i].text,
         chunk_id |-> i - 1,
         start_char |-> text_chunks[i].start_char,
         end_char |-> text_chunks[i].end_char]]

\* chunk_text is a plain sequential loop: an enabled iteration is executed
SpecChunkFair == SpecChunk /\ WF_vars(ChunkNext)

-----------------------------------------------------------------------------
(* Claims about chunk_text *)

Regions == {table_ranges[i] : i \in 1..Len(table_ranges)}
           \cup {slide_ranges[i] : i \in 1..Len(slide_ranges)}

ChunkSet == {chunks[i] : i \in 1..Len(chunks)}

Covered(i) == \E c \in ChunkSet : c.start_char <= i /\ i < c.end_char

\* C1 (as claimed): every emitted chunk either wholly contains each table or
\* slide region of the text or does not intersect it.
C1_Atomicity ==
    \A c \in ChunkSet : \A r \in Regions :
        \/ (c.start_char <= r[1] /\ r[2] <= c.end_char)
        \/ (c.end_char <= r[1] \/ r[2] <= c.start_char)

\* C2 (as claimed): when chunk_text has returned, every character offset of
\* the text lies inside the span of at least one emitted chunk.
C2_CoverageAll ==
    cpc = "done" => \A i \in 0..(Len(text) - 1) : Covered(i)

\* C2 (amended): when chunk_text has returned, every offset that holds a
\* non-whitespace character lies inside the span of at least one emitted
\* chunk; only whitespace can be left uncovered.
C2_CoverageNonBlank ==
    cpc = "done" =>
        \A i \in 0..(Len(text) - 1) : ~IsSpace(text[i + 1]) => Covered(i)

\* a returned run that emitted chunks and also dropped a whitespace-only span
C2_Witness ==
    /\ cpc = "done"
    /\ Len(chunks) >= 2
    /\ overlap > 0
    /\ \E i \in 0..(Len(text) - 1) : ~Covered(i)

\* one iteration of the while loop moves the cursor strictly forward: to the
\* region end on the protected path, by chunk_size - overlap otherwise
C3_StepAdvances ==
    (cpc = "loop" /\ start < Len(text)) =>
        /\ start' > start
        /\ LET r == is_in_protected_region(table_ranges, slide_ranges, start)
           IN  IF r.is_protected
               THEN start' = r.end_pos
               ELSE start' = start + chunk_size - overlap

\* C3: the cursor strictly increases on every loop iteration (by
\* chunk_size - overlap on the ordinary path, to the region end on the
\* protected path), the loop is left only with the cursor at or past the end
\* of the text, and it is always left.
C3_Termination ==
    /\ [][C3_StepAdvances]_vars
    /\ [](cpc = "done" => start >= Len(text))
    /\ <>(cpc = "done")

\* a returned run that took both paths, with the largest overlap
C3_Witness ==
    /\ cpc = "done"
    /\ lastStep.kind = "protected"
    /\ overlap = chunk_size - 1
    /\ \E i \in 1..Len(chunks) : chunks[i].start_char > 0

\* an opening table marker \[TABLE \d+\] stands at offset s
TableOpensAt(s) == MatchEnd("table", text, s) >= 0

\* the end offsets of the closing markers that start after offset s
ClosingEndsAfter(s) ==
    {p + Len(LitEndTable) : p \in {q \in (s + 1)..Len(text) :
                                      MatchLit(text, q, LitEndTable)}}

\* a well-formed table region starts at s: an opening marker with a closing
\* marker after it
WellFormedTableAt(s) == TableOpensAt(s) /\ ClosingEndsAfter(s) # {}

\* the end of the first closing marker after s
TableEndFor(s) ==
    CHOOSE e \in ClosingEndsAfter(s) : \A f \in ClosingEndsAfter(s) : e <= f

C12_RegionStartStep ==
    (cpc = "loop" /\ start < Len(text) /\ WellFormedTableAt(start)) =>
        chunks' = Append(chunks,
                         [text |-> SubSeq(text, start + 1, TableEndFor(start)),
                          start_char |-> start,
                          end_char |-> TableEndFor(start)])

\* C12: when the cursor is at the first character of a well-formed table
\* region, the chunk emitted at that step is exactly the whole region, from
\* the start of the opening marker to the end of its closing marker, whatever
\* chunk_size is, also when the region is longer than 2 * chunk_size.
C12_RegionStart == [][C12_RegionStartStep]_vars

\* a table region longer than 2 * chunk_size emitted whole from its first
\* character, further closing markers following it
C12_Witness ==
    /\ lastStep.kind = "protected"
    /\ \E i \in 1..Len(table_ranges) : table_ranges[i][1] = lastStep.from
    /\ lastStep.region_end - lastStep.from > 2 * chunk_size
    /\ lastStep.region_end < Len(text)
    /\ chunks # <<>>
    /\ chunks[Len(chunks)].start_char = lastStep.from
    /\ chunks[Len(chunks)].end_char = lastStep.region_end

\* the span the iteration at cursor s cuts out of the text
StepSpanEnd(s) ==
    LET r == is_in_protected_region(table_ranges, slide_ranges, s)
    IN  IF r.is_protected THEN r.end_pos ELSE OrdinaryEnd(s)

C17_BlankSpanStep ==
    (cpc = "loop" /\ start < Len(text)) =>
        IF StripNonEmpty(Slice(text, start, StepSpanEnd(start)))
        THEN Len(chunks') = Len(chunks) + 1
        ELSE chunks' = chunks

\* C17: every chunk emitted by chunk_text, on the protected path and on the
\* ordinary path, is the text of its span and is non-empty after trimming
\* whitespace; an iteration whose span is whitespace-only emits no chunk.
C17_NonEmptyChunks ==
    /\ [](\A c \in ChunkSet :
            /\ c.text = Slice(text, c.start_char, c.end_char)
            /\ StripNonEmpty(c.text))
    /\ [][C17_BlankSpanStep]_vars

\* the protected path met a whitespace-only rest of a region and emitted
\* nothing for it, after chunks had been emitted
C17_Witness ==
    /\ cpc = "done"
    /\ lastStep.kind = "protected"
    /\ ~StripNonEmpty(Slice(text, lastStep.from, lastStep.region_end))
    /\ chunks # <<>>
    /\ chunks[Len(chunks)].end_char >= lastStep.region_end

\* C18: the chunks emitted for one document have non-decreasing start_char
\* in emission order, and create_chunks numbers them 0, 1, 2, ... in that
\* same order.
C18_StartsNonDecreasing ==
    LET cs == create_chunks(chunks)
    IN  /\ \A i, j \in 1..Len(chunks) :
            i < j => chunks[i].start_char <= chunks[j].start_char
        /\ Len(cs) = Len(chunks)
        /\ \A i \in 1..Len(cs) :
            /\ cs[i].chunk_id = i - 1
            /\ cs[i].start_char = chunks[i].start_char
            /\ cs[i].text = chunks[i].text
        /\ \A i, j \in 1..Len(cs) :
            cs[i].chunk_id < cs[j].chunk_id => cs[i].start_char <= cs[j].start_char

\* a returned run with three chunks from both paths, starts strictly apart
C18_Witness ==
    /\ cpc = "done"
    /\ Len(chunks) >= 3
    /\ chunks[1].start_char < chunks[2].start_char
    /\ chunks[2].start_char < chunks[3].start_char
    /\ \E i \in 1..Len(chunks) : chunks[i].end_char - chunks[i].start_char > 2 * chunk_size

-----------------------------------------------------------------------------
(* Hybrid retriever (retriever.py)                                         *)
(*                                                                         *)
(* Scores are fixed-point numbers: SCALE stands for 1.0.  The raw scores   *)
(* drawn below keep every quotient and product of the fusion exact.        *)

\* Bounds of the retriever model
MaxDocs == 3
MaxDist == 1
MaxBm25 == 1
MaxK == 1
MaxIndexRuns == 1

SCALE == 1000 * 6

\* max(0.0, min(1.0, x))
Clamp01(x) == Max(0, Min(SCALE, x))

TOP_K == 8

Uppers == <<"A", "B", "C", "D", "E", "F", "G", "H", "I", "J", "K", "L", "M",
            "N", "O", "P", "Q", "R", "S", "T", "U", "V", "W", "X", "Y", "Z">>
Lowers == <<"a", "b", "c", "d", "e", "f", "g", "h", "i", "j", "k", "l", "m",
            "n", "o", "p", "q", "r", "s", "t", "u", "v", "w", "x", "y", "z">>

\* str.lower()
Lower(t) ==
    [i \in 1..Len(t) |->
        IF \E j \in 1..26 : Uppers[j] = t[i]
        THEN Lowers[CHOOSE j \in 1..26 : Uppers[j] = t[i]]
        ELSE t[i]]

\* str.strip()
Strip(t) ==
    IF ~StripNonEmpty(t) THEN <<>>
    ELSE LET nb == {i \in 1..Len(t) : ~IsSpace(t[i])}
             first == CHOOSE i \in nb : \A j \in nb : i <= j
             last == CHOOSE i \in nb : \A j \in nb : i >= j
         IN  SubSeq(t, first, last)

\* str.startswith(prefix)
StartsWith(t, prefix) == MatchLit(t, 0, prefix)

\* sub in t
Contains(t, sub) == \E p \in 0..Len(t) : MatchLit(t, p, sub)

LocatorPrefixes ==
    {<<"w", "h", "e", "r", "e">>,
     <<"w", "h", "i", "c", "h", " ", "m", "o", "d", "u", "l", "e">>,
     <<"f", "i", "n", "d">>}

MaterialsKeywords ==
    {<<"m", "a", "t", "e", "r", "i", "a", "l">>,
     <<"b", "o", "o", "k">>,
     <<"t", "e", "x", "t", "b", "o", "o", "k">>,
     <<"r", "e", "q", "u", "i", "r", "e", "d">>,
     <<"c", "o", "u", "r", "s", "e", " ", "p", "a", "c", "k">>}

MaterialsTerms ==
    {<<"t", "a", "b", "l", "e">>,
     <<"m", "a", "t", "e", "r", "i", "a", "l">>,
     <<"b", "o", "o", "k">>,
     <<"f", "u", "n", "d", "a", "m", "e", "n", "t", "a", "l", "s">>,
     <<"c", "o", "u", "r", "s", "e", " ", "p", "a", "c", "k">>,
     <<"l", "a", "b", " ", "a", "c", "c", "e", "s", "s">>}

\* a family test that looks for the materials keywords first
QueryFamilyMaterialsFirst(query) ==
    LET query_lower == Lower(Strip(query))
    IN  IF \E kw \in MaterialsKeywords : Contains(query_lower, kw)
        THEN "materials"
        ELSE IF \E p \in LocatorPrefixes : StartsWith(query_lower, p)
        THEN "locator"
        ELSE "none"

\* the boost family of a query: locator is tested first
QueryFamily(query) ==
    LET query_lower == Lower(Strip(query))
    IN  IF \E p \in LocatorPrefixes : StartsWith(query_lower, p) THEN "locator"
        ELSE IF \E kw \in MaterialsKeywords : Contains(query_lower, kw)
        THEN "materials"
        ELSE "none"

LocatorBoost == (15 * SCALE) \div 100
MaterialsBoost == (20 * SCALE) \div 100
MaterialsResultBoost == (25 * SCALE) \div 100

\* keyword_boost
KeywordBoost(family) ==
    CASE family = "locator" -> LocatorBoost
      [] family = "materials" -> MaterialsBoost
      [] OTHER -> 0

\* the chunk's own text holds a materials-indicator term
HasMaterialsTerm(t) == \E term \in MaterialsTerms : Contains(Lower(t), term)

-----------------------------------------------------------------------------
(* Queries and documents of the model *)

QEmpty == <<>>
QBlank == <<" ">>
QPlain == <<"x", " ", "y">>
QLocator == <<" ", "W", "h", "e", "r", "e", " ", "b", "o", "o", "k">>
QMaterials == <<"B", "o", "o", "k", " ", "x">>

Queries == {QEmpty, QBlank, QPlain, QLocator, QMaterials}

DocBook == <<"T", "e", "x", "t", "b", "o", "o", "k">>
DocPlain == <<"x">>

DocTexts == {DocBook, DocPlain}

\* the chunk texts an indexing run can store: any sequence, repeats included
Corpora == UNION {[1..n -> DocTexts] : n \in 0..MaxDocs}

\* cosine distances the dense index can report (0.0, 1.0, 2.0, ...)
Distances == {d * SCALE : d \in 0..MaxDist}

\* raw scores the lexical index can report
Bm25Scores == 0..MaxBm25

\* the permutations of 1..n
Perms(n) == {f \in [1..n -> 1..n] : \A i, j \in 1..n : f[i] = f[j] => i = j}

-----------------------------------------------------------------------------
(* vector_search and bm25_search *)

\* similarity = max(0.0, min(1.0, 1.0 - distance / 2.0))
Similarity(distance) == Clamp01(SCALE - distance \div 2)

\* the orders in which the dense index can return the documents docs for the
\* per-text distances dist: nearest first, equal distances in any order
DenseOrders(docs, dist) ==
    {f \in Perms(Len(docs)) :
        \A i, j \in 1..Len(docs) : i < j => dist[docs[f[i]]] <= dist[docs[f[j]]]}

\* vector_search: the n_results nearest documents of the collection
vector_search(docs, dist, order, top_k) ==
    [i \in 1..Min(top_k, Len(docs)) |->
        [text |-> docs[order[i]],
         metadata |-> order[i],
         score |-> Similarity(dist[docs[order[i]]]),
         type |-> "vector"]]

\* np.argsort(scores)[::-1]: best score first, equal scores in any order
Bm25Orders(docs, sc) ==
    {f \in Perms(Len(docs)) :
        \A i, j \in 1..Len(docs) : i < j => sc[docs[f[i]]] >= sc[docs[f[j]]]}

\* if scores[idx] > 0
Bm25Keep(docs, sc, idx) == sc[docs[idx]] > 0

\* bm25_search: the top_k best documents, those of score 0 left out
bm25_search(docs, sc, order, top_k) ==
    LET top_indices == SubSeq(order, 1, Min(top_k, Len(docs)))
        kept == SelectSeq(top_indices, LAMBDA idx : Bm25Keep(docs, sc, idx))
    IN  [i \in 1..Len(kept) |->
            [text |-> docs[kept[i]],
             metadata |-> kept[i],
             score |-> sc[docs[kept[i]]],
             type |-> "bm25"]]

-----------------------------------------------------------------------------
(* hybrid_search *)

RECURSIVE SeqMax(_)
SeqMax(xs) == IF Len(xs) = 1 THEN xs[1] ELSE Max(xs[1], SeqMax(Tail(xs)))

RECURSIVE SeqMin(_)
SeqMin(xs) == IF Len(xs) = 1 THEN xs[1] ELSE Min(xs[1], SeqMin(Tail(xs)))

\* a normalization that maps a degenerate list to 1.0
normalize_scores_degenerate_one(rs) ==
    IF rs = <<>> THEN <<>>
    ELSE LET scores == [i \in 1..Len(rs) |-> rs[i].score]
             max_score == SeqMax(scores)
             min_score == SeqMin(scores)
         IN  IF max_score = min_score \/ max_score = 0
             THEN [i \in 1..Len(rs) |-> SCALE]
             ELSE [i \in 1..Len(rs) |->
                     ((scores[i] - min_score) * SCALE) \div (max_score - min_score)]

\* a normalization that divides by the maximum only
normalize_scores_by_max(rs) ==
    IF rs = <<>> THEN <<>>
    ELSE LET scores == [i \in 1..Len(rs) |-> rs[i].score]
             max_score == SeqMax(scores)
             min_score == SeqMin(scores)
         IN  IF max_score = min_score \/ max_score = 0
             THEN [i \in 1..Len(rs) |-> SCALE \div 2]
             ELSE [i \in 1..Len(rs) |-> (scores[i] * SCALE) \div max_score]

\* _normalize_scores: position -> normalized score; empty for an empty list
normalize_scores(rs) ==
    IF rs = <<>> THEN <<>>
    ELSE LET scores == [i \in 1..Len(rs) |-> rs[i].score]
             max_score == SeqMax(scores)
             min_score == SeqMin(scores)
         IN  IF max_score = min_score \/ max_score = 0
             THEN [i \in 1..Len(rs) |-> SCALE \div 2]
             ELSE [i \in 1..Len(rs) |->
                     ((scores[i] - min_score) * SCALE) \div (max_score - min_score)]

\* a per-result boost granted for every boosted query, locator included
WithNormalizedAnyFamily(rs, family) ==
    LET normalized == normalize_scores(rs)
    IN  [i \in 1..Len(rs) |->
            [text |-> rs[i].text,
             metadata |-> rs[i].metadata,
             score |-> rs[i].score,
             type |-> rs[i].type,
             normalized_score |->
                IF family # "none" /\ HasMaterialsTerm(rs[i].text)
                THEN Min(SCALE, normalized[i] + MaterialsResultBoost)
                ELSE normalized[i]]]

\* a per-result boost granted to every result of a materials query
WithNormalizedAllResults(rs, family) ==
    LET normalized == normalize_scores(rs)
    IN  [i \in 1..Len(rs) |->
            [text |-> rs[i].text,
             metadata |-> rs[i].metadata,
             score |-> rs[i].score,
             type |-> rs[i].type,
             normalized_score |->
                IF family = "materials"
                THEN Min(SCALE, normalized[i] + MaterialsResultBoost)
                ELSE normalized[i]]]

\* r['normalized_score'] = normalized.get(i, 0.0), then the per-result
\* materials boost when the query is a materials query
WithNormalized(rs, family) ==
    LET normalized == normalize_scores(rs)
    IN  [i \in 1..Len(rs) |->
            [text |-> rs[i].text,
             metadata |-> rs[i].metadata,
             score |-> rs[i].score,
             type |-> rs[i].type,
             normalized_score |->
                IF family = "materials" /\ HasMaterialsTerm(rs[i].text)
                THEN Min(SCALE, normalized[i] + MaterialsResultBoost)
                ELSE normalized[i]]]

\* position in m of the entry keyed by text t, or 0
RECURSIVE IndexOfText(_, _, _)
IndexOfText(m, t, i) ==
    IF i > Len(m) THEN 0
    ELSE IF m[i].text = t THEN i
    ELSE IndexOfText(m, t, i + 1)

\* a merge keyed by the chunk identifier instead of the chunk text
MergeOneById(m, r, weight) ==
    Append(m, [text |-> r.text, metadata |-> r.metadata, score |-> r.score,
               type |-> r.type, normalized_score |-> r.normalized_score,
               hybrid_score |-> (r.normalized_score * weight) \div 10])

\* a merge whose later occurrence overwrites the entry's type
MergeOneRetag(m, r, weight) ==
    LET j == IndexOfText(m, r.text, 1)
        contribution == (r.normalized_score * weight) \div 10
    IN  IF j = 0
        THEN Append(m, [text |-> r.text, metadata |-> r.metadata,
                        score |-> r.score, type |-> r.type,
                        normalized_score |-> r.normalized_score,
                        hybrid_score |-> contribution])
        ELSE [m EXCEPT ![j].hybrid_score = @ + contribution,
                       ![j].type = r.type]

\* one iteration of a merge loop: weight is 6 for 0.6 and 4 for 0.4
MergeOne(m, r, weight) ==
    LET j == IndexOfText(m, r.text, 1)
        contribution == (r.normalized_score * weight) \div 10
    IN  IF j = 0
        THEN Append(m, [text |-> r.text, metadata |-> r.metadata,
                        score |-> r.score, type |-> r.type,
                        normalized_score |-> r.normalized_score,
                        hybrid_score |-> contribution])
        ELSE [m EXCEPT ![j].hybrid_score = @ + contribution]

RECURSIVE MergeAll(_, _, _, _)
MergeAll(m, rs, i, weight) ==
    IF i > Len(rs) THEN m
    ELSE MergeAll(MergeOne(m, rs[i], weight), rs, i + 1, weight)

\* a merge with the two weights exchanged
MergeSwappedWeights(vrs, brs) == MergeAll(MergeAll(<<>>, vrs, 1, 4), brs, 1, 6)

\* merged after both loops, in dict insertion order
Merge(vrs, brs) == MergeAll(MergeAll(<<>>, vrs, 1, 6), brs, 1, 4)

\* a boost applied without the clamp
BoostNoClamp(h, keyword_boost) == h + keyword_boost

\* a boost that is subtracted
BoostSubtracted(h, keyword_boost) == Clamp01(h - keyword_boost)

\* max(0.0, min(1.0, hybrid_score + keyword_boost))
BoostAndClamp(h, keyword_boost) == Clamp01(h + keyword_boost)

ApplyBoost(m, keyword_boost) ==
    [i \in 1..Len(m) |->
        [m[i] EXCEPT !.hybrid_score = BoostAndClamp(@, keyword_boost)]]

\* an insertion that puts an entry in front of the entries of equal score
RECURSIVE InsertBeforeEqual(_, _)
InsertBeforeEqual(sorted, e) ==
    IF sorted = <<>> THEN <<e>>
    ELSE IF Head(sorted).hybrid_score > e.hybrid_score
    THEN <<Head(sorted)>> \o InsertBeforeEqual(Tail(sorted), e)
    ELSE <<e>> \o sorted

\* insert e behind every entry whose score is at least its own
RECURSIVE InsertDesc(_, _)
InsertDesc(sorted, e) ==
    IF sorted = <<>> THEN <<e>>
    ELSE IF Head(sorted).hybrid_score >= e.hybrid_score
    THEN <<Head(sorted)>> \o InsertDesc(Tail(sorted), e)
    ELSE <<e>> \o sorted

\* list.sort(key=hybrid_score, reverse=True): stable, best first
RECURSIVE SortDesc(_, _, _)
SortDesc(sorted, m, i) ==
    IF i > Len(m) THEN sorted
    ELSE SortDesc(InsertDesc(sorted, m[i]), m, i + 1)

\* final_results[:top_k]
Cut(rs, top_k) == SubSeq(rs, 1, Min(top_k, Len(rs)))

\* hybrid_search on the raw lists of the two searches
hybrid_search(query, rv, rb, top_k) ==
    LET family == QueryFamily(query)
        vrs == WithNormalized(rv, family)
        brs == WithNormalized(rb, family)
        m == Merge(vrs, brs)
        final_results == SortDesc(<<>>, ApplyBoost(m, KeywordBoost(family)), 1)
    IN  [vector_results |-> vrs, bm25_results |-> brs, merged |-> m,
         results |-> Cut(final_results, top_k)]

\* a confidence that averages nothing and reads the last result
ConfidenceOfLast(rs) ==
    IF rs # <<>> THEN Clamp01(rs[Len(rs)].hybrid_score) ELSE 0

\* retrieve: confidence from the top hit, 0.0 without results
Confidence(rs) ==
    IF rs # <<>> THEN Clamp01(rs[1].hybrid_score) ELSE 0

-----------------------------------------------------------------------------
(* The process: indexing runs, get_retriever and the request handlers *)

RetrieverInit ==
    ChunkerIdle /\ RetrieverIdle /\ NormIdle /\ ConcIdle /\ AppIdle

\* indexer.py main: an indexing run stores the chunk texts docs; indexing is
\* an offline batch step, taken between requests
RunIndexer(docs) ==
    /\ hpc = "idle"
    /\ index_runs < MaxIndexRuns
    /\ index_runs' = index_runs + 1
    /\ collection' = [exists |-> TRUE, documents |-> docs]
    /\ UNCHANGED <<retriever_instance, req, raw_vector, raw_bm25,
                   vector_results, bm25_results, merged, results, confidence,
                   outcome, http_status, hpc>>
    /\ UNCHANGED <<chunkVars, normVars, concVars, appVars>>

\* Retriever.__init__: get_collection fails and ValueError is raised when
\* the collection is missing; otherwise the documents are loaded
ConstructOutcomes ==
    IF ~collection.exists THEN {"ValueError"} ELSE {"ok"}

\* get_retriever: the instance after the call, co being the outcome of the
\* construction when one is needed
GetRetriever(co) ==
    IF retriever_instance.loaded THEN retriever_instance
    ELSE IF co = "ok" THEN [loaded |-> TRUE, documents |-> collection.documents]
    ELSE retriever_instance

\* a handler table that reports every failure as a generic error
StatusGeneric(endpoint, oc) ==
    IF endpoint = "chat" /\ oc # "ok" THEN 500 ELSE 200

\* the HTTP status a handler answers with: /chat maps ValueError to 503 and
\* any other exception to 500; /debug/retrieve returns the error in a 200
StatusOf(endpoint, oc) ==
    IF endpoint = "chat"
    THEN (CASE oc = "ValueError" -> 503
            [] oc = "Exception" -> 500
            [] OTHER -> 200)
    ELSE 200

\* the distinct chunk texts of docs
TextsOf(docs) == {docs[i] : i \in 1..Len(docs)}

\* the distances per chunk text: equal texts have equal embeddings
DistanceFns(docs) == [TextsOf(docs) -> Distances]

\* the lexical scores per chunk text: all 0 for a query without tokens
Bm25ScoreFns(q, docs) ==
    IF ~StripNonEmpty(q) THEN {[t \in TextsOf(docs) |-> 0]}
    ELSE [TextsOf(docs) -> Bm25Scores]

\* the request ends with exception oc before any result exists
Fails(endpoint, q, k, oc, dense_failed, lexical_failed) ==
    /\ req' = [endpoint |-> endpoint, query |-> q, top_k |-> k,
               dense_failed |-> dense_failed,
               lexical_failed |-> lexical_failed,
               family |-> QueryFamily(q)]
    /\ raw_vector' = <<>>
    /\ raw_bm25' = <<>>
    /\ vector_results' = <<>>
    /\ bm25_results' = <<>>
    /\ merged' = <<>>
    /\ results' = <<>>
    /\ confidence' = 0
    /\ outcome' = oc
    /\ http_status' = StatusOf(endpoint, oc)

\* retrieve returns: h is what hybrid_search computed from the raw lists
Succeeds(endpoint, q, k, rv, rb, h) ==
    /\ req' = [endpoint |-> endpoint, query |-> q, top_k |-> k,
               dense_failed |-> FALSE, lexical_failed |-> FALSE,
               family |-> QueryFamily(q)]
    /\ raw_vector' = rv
    /\ raw_bm25' = rb
    /\ vector_results' = h.vector_results
    /\ bm25_results' = h.bm25_results
    /\ merged' = h.merged
    /\ results' = h.results
    /\ confidence' = Confidence(h.results)
    /\ outcome' = "ok"
    /\ http_status' = StatusOf(endpoint, "ok")

\* get_retriever() followed by retriever.retrieve(q, top_k=k)
Handle(endpoint, q, k) ==
    /\ hpc = "idle"
    /\ hpc' = "responding"
    /\ \E co \in (IF retriever_instance.loaded THEN {"ok"} ELSE ConstructOutcomes) :
        /\ retriever_instance' = GetRetriever(co)
        /\ IF co # "ok"
           THEN Fails(endpoint, q, k, co, FALSE, FALSE)
           ELSE \/ Fails(endpoint, q, k, "Exception", TRUE, FALSE)
                \/ Fails(endpoint, q, k, "Exception", FALSE, TRUE)
                \/ \E dist \in DistanceFns(collection.documents),
                      sc \in Bm25ScoreFns(q, retriever_instance'.documents) :
                   \E vorder \in DenseOrders(collection.documents, dist),
                      border \in Bm25Orders(retriever_instance'.documents, sc) :
                   \E rv \in {vector_search(collection.documents, dist, vorder, k * 2)},
                      rb \in {bm25_search(retriever_instance'.documents, sc, border, k * 2)} :
                   \E h \in {hybrid_search(q, rv, rb, k)} :
                        Succeeds(endpoint, q, k, rv, rb, h)
    /\ UNCHANGED <<collection, index_runs>>
    /\ UNCHANGED <<chunkVars, normVars, concVars, appVars>>

\* POST /chat: the request model rejects an empty query before the handler
Chat(q) ==
    /\ Len(q) >= 1
    /\ Handle("chat", q, TOP_K)

\* GET /debug/retrieve?q=..&k=..
DebugRetrieve(q, k) == Handle("debug_retrieve", q, k)

\* the response is sent: the per-query results are discarded
Respond ==
    /\ hpc = "responding"
    /\ hpc' = "idle"
    /\ req' = NoRequest
    /\ raw_vector' = <<>>
    /\ raw_bm25' = <<>>
    /\ vector_results' = <<>>
    /\ bm25_results' = <<>>
    /\ merged' = <<>>
    /\ results' = <<>>
    /\ confidence' = 0
    /\ outcome' = "none"
    /\ http_status' = 0
    /\ UNCHANGED <<collection, retriever_instance, index_runs>>
    /\ UNCHANGED <<chunkVars, normVars, concVars, appVars>>

RetrieverNext ==
    \/ \E docs \in Corpora : RunIndexer(docs)
    \/ \E q \in Queries : Chat(q)
    \/ \E q \in Queries, k \in 1..MaxK : DebugRetrieve(q, k)
    \/ Respond

SpecRetriever == RetrieverInit /\ [][RetrieverNext]_vars

-----------------------------------------------------------------------------
(* hybrid_search on its own: the two searches are black boxes that return   *)
(* any ranked lists of at most 2 * top_k results                            *)

\* Bounds of the fusion model
MaxDenseLen == 2
MaxLexLen == 2
MaxSimStep == 2
MaxLexScore == 3
MaxFuseK == 2

DocOther == <<"y">>

FuseTexts == {DocBook, DocPlain}

FuseQueries == {QPlain, QLocator, QMaterials}

\* similarities the dense search can report: 1.0, 0.75, 0.5, ...
FuseSims == {Similarity((d * SCALE) \div 2) : d \in 0..MaxSimStep}

\* raw scores the lexical search can report: only those above 0 are listed
FuseLexScores == 1..MaxLexScore

\* ranked lists: best first, equal texts with equal scores
RankedLists(maxLen, scores, type) ==
    UNION {
        {[i \in 1..n |-> [text |-> ts[i], metadata |-> i, score |-> ss[i],
                          type |-> type]] :
            ts \in [1..n -> FuseTexts],
            ss \in {f \in [1..n -> scores] :
                      \A i, j \in 1..n : i < j => f[i] >= f[j]}}
        : n \in 0..maxLen}

\* dense similarities 0.9, 0.5, 0.1 and lexical scores 5.0, 5.0, 5.0 for the
\* same three chunks
ScenarioDense ==
    <<[text |-> DocPlain, metadata |-> 1, score |-> (9 * SCALE) \div 10,
       type |-> "vector"],
      [text |-> DocOther, metadata |-> 2, score |-> (5 * SCALE) \div 10,
       type |-> "vector"],
      [text |-> DocBook, metadata |-> 3, score |-> SCALE \div 10,
       type |-> "vector"]>>

ScenarioLex ==
    [i \in 1..3 |-> [text |-> ScenarioDense[i].text, metadata |-> i,
                     score |-> 5, type |-> "bm25"]]

ConsistentScores(rs) ==
    \A i, j \in 1..Len(rs) : rs[i].text = rs[j].text => rs[i].score = rs[j].score

FuseInit ==
    /\ ChunkerIdle
    /\ AppIdle
    /\ NormIdle
    /\ ConcIdle
    /\ collection = [exists |-> FALSE, documents |-> <<>>]
    /\ retriever_instance = [loaded |-> FALSE, documents |-> <<>>]
    /\ index_runs = 0
    /\ \/ /\ \E q \in FuseQueries, k \in 1..MaxFuseK :
                req = [endpoint |-> "hybrid_search", query |-> q, top_k |-> k,
                       dense_failed |-> FALSE, lexical_failed |-> FALSE,
                       family |-> QueryFamily(q)]
          /\ raw_vector \in RankedLists(MaxDenseLen, FuseSims, "vector")
          /\ raw_bm25 \in RankedLists(MaxLexLen, FuseLexScores, "bm25")
          /\ ConsistentScores(raw_vector)
          /\ ConsistentScores(raw_bm25)
          /\ Len(raw_vector) <= 2 * req.top_k
          /\ Len(raw_bm25) <= 2 * req.top_k
       \/ /\ \E q \in FuseQueries :
                req = [endpoint |-> "hybrid_search", query |-> q,
                       top_k |-> Len(ScenarioDense),
                       dense_failed |-> FALSE, lexical_failed |-> FALSE,
                       family |-> QueryFamily(q)]
          /\ raw_vector = ScenarioDense
          /\ raw_bm25 = ScenarioLex
    /\ vector_results = <<>>
    /\ bm25_results = <<>>
    /\ merged = <<>>
    /\ results = <<>>
    /\ confidence = 0
    /\ outcome = "none"
    /\ http_status = 0
    /\ hpc = "idle"

\* retrieve(query, top_k) on the given search results
FuseCall ==
    /\ hpc = "idle"
    /\ hpc' = "responding"
    /\ \E h \in {hybrid_search(req.query, raw_vector, raw_bm25, req.top_k)} :
        /\ vector_results' = h.vector_results
        /\ bm25_results' = h.bm25_results
        /\ merged' = h.merged
        /\ results' = h.results
        /\ confidence' = Confidence(h.results)
    /\ outcome' = "ok"
    /\ UNCHANGED <<collection, retriever_instance, index_runs, req, raw_vector,
                   raw_bm25, http_status>>
    /\ UNCHANGED <<chunkVars, normVars, concVars, appVars>>

FuseNext == FuseCall

SpecFuse == FuseInit /\ [][FuseNext]_vars

-----------------------------------------------------------------------------
(* Claims about the retriever *)

ResultTexts == {results[i].text : i \in 1..Len(results)}

\* C4: every hybrid_score returned by hybrid_search lies in [0, 1], with no
\* boost, the locator boost or the materials boosts, and with texts
\* duplicated inside one list.
C4_FusionBounds ==
    \A i \in 1..Len(results) :
        0 <= results[i].hybrid_score /\ results[i].hybrid_score <= SCALE

\* a returned result whose merged score plus boost exceeded 1.0
C4_Witness ==
    /\ outcome = "ok"
    /\ results # <<>>
    /\ \E i \in 1..Len(merged) :
        /\ merged[i].hybrid_score + KeywordBoost(req.family) > SCALE
        /\ merged[i].text \in ResultTexts

\* the sum of weight/10 * normalized_score over the entries of rs with text t
RECURSIVE WeightedSum(_, _, _)
WeightedSum(rs, t, weight) ==
    IF rs = <<>> THEN 0
    ELSE (IF Head(rs).text = t
          THEN (Head(rs).normalized_score * weight) \div 10 ELSE 0)
         + WeightedSum(Tail(rs), t, weight)

NoTwoSameText(rs) ==
    \A i, j \in 1..Len(rs) : rs[i].text = rs[j].text => i = j

\* C5 (as claimed): no two returned results have the same text, and a text
\* found in both lists has one fused entry whose score before boost is
\* 0.6 * dense normalized + 0.4 * lexical normalized, for the dense and the
\* lexical result that carry it.
C5_DedupTwoContributions ==
    outcome = "ok" =>
        /\ NoTwoSameText(results)
        /\ \A i \in 1..Len(vector_results), j \in 1..Len(bm25_results) :
            vector_results[i].text = bm25_results[j].text =>
                /\ Cardinality({n \in 1..Len(merged) :
                        merged[n].text = vector_results[i].text}) = 1
                /\ \A n \in 1..Len(merged) :
                    merged[n].text = vector_results[i].text =>
                        merged[n].hybrid_score =
                            (vector_results[i].normalized_score * 6) \div 10
                            + (bm25_results[j].normalized_score * 4) \div 10

\* C5 (amended): no two returned results have the same text; every text of
\* either list has exactly one fused entry, whose score before boost is the
\* sum of the weighted contributions of all its occurrences: 0.6 * normalized
\* for each occurrence in the dense list plus 0.4 * normalized for each
\* occurrence in the lexical list.
C5_DedupSum ==
    outcome = "ok" =>
        /\ NoTwoSameText(results)
        /\ NoTwoSameText(merged)
        /\ \A i \in 1..Len(vector_results) :
            \E n \in 1..Len(merged) : merged[n].text = vector_results[i].text
        /\ \A j \in 1..Len(bm25_results) :
            \E n \in 1..Len(merged) : merged[n].text = bm25_results[j].text
        /\ \A n \in 1..Len(merged) :
            merged[n].hybrid_score =
                WeightedSum(vector_results, merged[n].text, 6)
                + WeightedSum(bm25_results, merged[n].text, 4)

\* a text that is twice in the dense list and also in the lexical list
C5_Witness ==
    /\ outcome = "ok"
    /\ \E i, j \in 1..Len(vector_results), n \in 1..Len(bm25_results) :
        /\ i # j
        /\ vector_results[i].text = vector_results[j].text
        /\ vector_results[i].text = bm25_results[n].text
    /\ Len(merged) >= 2

\* C6: the confidence returned by retrieve is the hybrid_score of the first
\* returned result, or exactly 0.0 when the result list is empty; it is
\* always in [0, 1].
C6_Confidence ==
    outcome = "ok" =>
        /\ results = <<>> => confidence = 0
        /\ results # <<>> => confidence = results[1].hybrid_score
        /\ 0 <= confidence /\ confidence <= SCALE

\* several results, the best one strictly ahead of the last one
C6_Witness ==
    /\ outcome = "ok"
    /\ Len(results) >= 2
    /\ results[1].hybrid_score > results[Len(results)].hybrid_score
    /\ confidence > 0

\* position of the first entry of rs with text t, or 0
FirstWithText(rs, t) ==
    IF \E i \in 1..Len(rs) : rs[i].text = t
    THEN CHOOSE i \in 1..Len(rs) :
            rs[i].text = t /\ \A j \in 1..Len(rs) : rs[j].text = t => i <= j
    ELSE 0

\* insertion order: dense texts in dense rank order, then the lexical-only
\* texts in lexical rank order
InsertionRank(t) ==
    IF FirstWithText(vector_results, t) > 0
    THEN FirstWithText(vector_results, t)
    ELSE Len(vector_results) + FirstWithText(bm25_results, t)

\* the score an entry of merged has after boost and clamp
FinalScore(m) == Clamp01(m.hybrid_score + KeywordBoost(req.family))

\* a ranks before b: higher score, or equal score and inserted earlier
RanksBefore(sa, ta, sb, tb) ==
    sa > sb \/ (sa = sb /\ InsertionRank(ta) < InsertionRank(tb))

\* C7: hybrid_search returns the first min(k, n) of the n fused entries in
\* order of non-increasing hybrid_score, entries of equal score in insertion
\* order (dense results in dense rank order, then lexical-only results in
\* lexical rank order).
C7_SortedTopK ==
    outcome = "ok" =>
        /\ Len(results) = Min(req.top_k, Len(merged))
        /\ \A i \in 1..Len(results) :
            \E n \in 1..Len(merged) :
                /\ merged[n].text = results[i].text
                /\ FinalScore(merged[n]) = results[i].hybrid_score
        /\ \A i, j \in 1..Len(results) :
            i < j => RanksBefore(results[i].hybrid_score, results[i].text,
                                 results[j].hybrid_score, results[j].text)
        /\ \A n \in 1..Len(merged) :
            merged[n].text \notin ResultTexts =>
                \A i \in 1..Len(results) :
                    RanksBefore(results[i].hybrid_score, results[i].text,
                                FinalScore(merged[n]), merged[n].text)

\* two returned results of equal score, one of them found by the lexical
\* search only
C7_Witness ==
    /\ outcome = "ok"
    /\ \E i \in 1..Len(results) :
        /\ i + 1 <= Len(results)
        /\ results[i].hybrid_score = results[i + 1].hybrid_score
    /\ \E n \in 1..Len(merged) : merged[n].type = "bm25"

\* a chat request answered while the collection is missing
NotReadyAnswer ==
    (hpc = "responding" /\ ~collection.exists) =>
        /\ outcome = "ValueError"
        /\ ~retriever_instance.loaded
        /\ req.endpoint = "chat" => (http_status = 503 /\ http_status # 500)

\* a request handled once an indexing run has stored chunks gets the retriever
ReadyStep ==
    (hpc = "idle" /\ hpc' = "responding"
        /\ collection.exists /\ collection.documents # <<>>) =>
        /\ retriever_instance'.loaded
        /\ outcome' # "ValueError"
        /\ http_status' # 503

\* C8: while the collection has not been built every attempt to obtain the
\* retriever fails with ValueError, which /chat answers with 503 and never
\* 500; the failure is not cached, so a request made once the index is built
\* obtains a working retriever.
C8_NotReady ==
    /\ [](NotReadyAnswer /\ (~collection.exists => ~retriever_instance.loaded))
    /\ [][ReadyStep]_vars

\* /chat answered 503 for a missing collection
C8_Witness ==
    /\ hpc = "responding"
    /\ ~collection.exists
    /\ req.endpoint = "chat"
    /\ http_status = 503

\* C9 (as claimed): when the dense or the lexical search raises, retrieve
\* still returns normally: the failed signal counts as an empty list and no
\* exception reaches the caller.
C9_GracefulDegradation ==
    (hpc = "responding" /\ (req.dense_failed \/ req.lexical_failed)) =>
        /\ outcome = "ok"
        /\ http_status = 200

\* C10 (as claimed): retrieve with an empty or whitespace-only query, or over
\* a collection without chunks, returns an empty result list and confidence
\* 0.0 instead of failing (the searches themselves not raising).
C10_EmptyQueryOrCorpus ==
    (/\ hpc = "responding"
     /\ collection.exists
     /\ ~req.dense_failed /\ ~req.lexical_failed
     /\ (~StripNonEmpty(req.query) \/ collection.documents = <<>>)) =>
        /\ outcome = "ok"
        /\ results = <<>>
        /\ confidence = 0

-----------------------------------------------------------------------------
(* Claims about the fusion: weights, boosts and provenance *)

\* the query starts, once trimmed and lower-cased, with a locator prefix
ClaimLocatorQuery(q) ==
    \E p \in LocatorPrefixes : StartsWith(Lower(Strip(q)), p)

\* the query holds, once trimmed and lower-cased, a materials keyword
ClaimMaterialsQuery(q) ==
    \E kw \in MaterialsKeywords : Contains(Lower(Strip(q)), kw)

InList(rs, t) == \E i \in 1..Len(rs) : rs[i].text = t

\* the normalized score text t has in list rs, 0 when it is not in the list
NormOf(rs, t) ==
    IF InList(rs, t) THEN rs[FirstWithText(rs, t)].normalized_score ELSE 0

ScoresOf(rs) == [i \in 1..Len(rs) |-> rs[i].hybrid_score]

\* fused scores 0.8, 0.5, 0.2
ScenarioFused == <<(8 * SCALE) \div 10, (5 * SCALE) \div 10, (2 * SCALE) \div 10>>

ScenarioHolds ==
    (raw_vector = ScenarioDense /\ raw_bm25 = ScenarioLex) =>
        /\ ScoresOf(results) = ScenarioFused
        /\ [i \in 1..Len(results) |-> results[i].text]
            = [i \in 1..Len(ScenarioDense) |-> ScenarioDense[i].text]

\* C13 (as claimed): for a query of no boost family the fused score of each
\* text is 0.6 * its dense normalized score + 0.4 * its lexical normalized
\* score, an absent text contributing nothing; dense [0.9, 0.5, 0.1] with
\* lexical [5, 5, 5] gives [0.8, 0.5, 0.2].
C13_WeightedPerText ==
    (/\ outcome = "ok"
     /\ ~ClaimLocatorQuery(req.query)
     /\ ~ClaimMaterialsQuery(req.query)) =>
        /\ \A i \in 1..Len(results) :
            results[i].hybrid_score =
                (NormOf(vector_results, results[i].text) * 6) \div 10
                + (NormOf(bm25_results, results[i].text) * 4) \div 10
        /\ ScenarioHolds

\* C13 (amended): for a query of no boost family the fused score of each
\* text is the sum, clamped at 1.0, of 0.6 * normalized for every occurrence
\* of the text in the dense list and 0.4 * normalized for every occurrence in
\* the lexical list; for a text that occurs at most once in each list this is
\* 0.6 * dense normalized + 0.4 * lexical normalized, an absent text
\* contributing nothing; dense [0.9, 0.5, 0.1] with lexical [5, 5, 5] gives
\* [0.8, 0.5, 0.2].
C13_WeightedPerOccurrence ==
    (/\ outcome = "ok"
     /\ ~ClaimLocatorQuery(req.query)
     /\ ~ClaimMaterialsQuery(req.query)) =>
        /\ \A i \in 1..Len(results) :
            /\ results[i].hybrid_score =
                Min(SCALE, WeightedSum(vector_results, results[i].text, 6)
                           + WeightedSum(bm25_results, results[i].text, 4))
            /\ (NoTwoSameText(vector_results) /\ NoTwoSameText(bm25_results)) =>
                results[i].hybrid_score =
                    (NormOf(vector_results, results[i].text) * 6) \div 10
                    + (NormOf(bm25_results, results[i].text) * 4) \div 10
        /\ ScenarioHolds

\* the scenario of the claim has been fused for a query of no boost family
C13_Witness ==
    /\ outcome = "ok"
    /\ req.query = QPlain
    /\ raw_vector = ScenarioDense
    /\ raw_bm25 = ScenarioLex
    /\ ScoresOf(results) = ScenarioFused

\* the fused entries the same lists give for a query of no boost family
BaseMerged == hybrid_search(QPlain, raw_vector, raw_bm25, req.top_k).merged

\* the base fused score of text t
BaseScore(t) == BaseMerged[IndexOfText(BaseMerged, t, 1)].hybrid_score

\* C14: for a locator query every fused score is min(1.0, base fused score +
\* 0.15), and the confidence is the top base fused score + 0.15, clamped at
\* 1.0.
C14_LocatorBoost ==
    (outcome = "ok" /\ ClaimLocatorQuery(req.query)) =>
        /\ \A i \in 1..Len(results) :
            /\ IndexOfText(BaseMerged, results[i].text, 1) > 0
            /\ results[i].hybrid_score =
                Min(SCALE, BaseScore(results[i].text) + (15 * SCALE) \div 100)
        /\ BaseMerged # <<>> =>
            confidence =
                Min(SCALE, SeqMax(ScoresOf(BaseMerged)) + (15 * SCALE) \div 100)

\* a locator query that also holds a materials keyword: the top score is
\* clamped at 1.0, a lower one is its base score plus 0.15
C14_Witness ==
    /\ outcome = "ok"
    /\ ClaimLocatorQuery(req.query)
    /\ ClaimMaterialsQuery(req.query)
    /\ Len(results) >= 2
    /\ confidence = SCALE
    /\ BaseScore(results[1].text) + (15 * SCALE) \div 100 > SCALE
    /\ results[2].hybrid_score < SCALE
    /\ results[2].hybrid_score > 0

\* the confidence the same lists give for a query of no boost family
BaseConfidence ==
    Confidence(hybrid_search(QPlain, raw_vector, raw_bm25, req.top_k).results)

\* C15: for fixed dense and lexical lists, the confidence returned when a
\* boost condition applies to the query (locator, or materials with its
\* per-result boosts) is at least the confidence computed for the same lists
\* with no boost.
C15_ConfidenceMonotone ==
    (/\ outcome = "ok"
     /\ (ClaimLocatorQuery(req.query) \/ ClaimMaterialsQuery(req.query))) =>
        confidence >= BaseConfidence

\* a materials query whose per-result boost applied and whose confidence is
\* strictly above the unboosted one without reaching 1.0
C15_Witness ==
    /\ outcome = "ok"
    /\ ClaimMaterialsQuery(req.query)
    /\ ~ClaimLocatorQuery(req.query)
    /\ confidence > BaseConfidence
    /\ confidence < SCALE
    /\ \E i \in 1..Len(raw_vector) : HasMaterialsTerm(raw_vector[i].text)

\* the provenance named by a result's type field
ProvenanceTag(r) ==
    CASE r.type = "vector" -> "dense"
      [] r.type = "bm25" -> "lexical"
      [] OTHER -> r.type

\* C19 (as claimed): every returned result is tagged dense when its text came
\* only from the dense list, lexical when only from the lexical list, and
\* both when its text was in both lists.
C19_ProvenanceThreeWay ==
    outcome = "ok" =>
        \A i \in 1..Len(results) :
            ProvenanceTag(results[i]) =
                IF InList(raw_vector, results[i].text)
                   /\ InList(raw_bm25, results[i].text) THEN "both"
                ELSE IF InList(raw_vector, results[i].text) THEN "dense"
                ELSE "lexical"

\* C19 (amended): every returned result carries a type tag: vector (dense)
\* when its text appeared in the dense list, whether or not it also appeared
\* in the lexical list, and bm25 (lexical) when its text came only from the
\* lexical list; no result is tagged as coming from both.
C19_ProvenanceFirstList ==
    outcome = "ok" =>
        \A i \in 1..Len(results) :
            /\ results[i].type \in {"vector", "bm25"}
            /\ results[i].type = "vector" <=> InList(raw_vector, results[i].text)
            /\ results[i].type = "bm25" =>
                (InList(raw_bm25, results[i].text)
                 /\ ~InList(raw_vector, results[i].text))

\* a result whose text was in both lists next to a lexical-only result
C19_Witness ==
    /\ outcome = "ok"
    /\ \E i, j \in 1..Len(results) :
        /\ InList(raw_vector, results[i].text)
        /\ InList(raw_bm25, results[i].text)
        /\ results[i].type = "vector"
        /\ results[j].type = "bm25"

-----------------------------------------------------------------------------
(* _normalize_scores on its own: any list of raw scores, then the list of   *)
(* its own normalized scores                                                *)

\* Bounds of the normalization model
MaxNormLen == 3
MaxNormScore == 4

\* raw scores in steps of 0.25, from -0.25 up
NormScores == {(n * SCALE) \div 4 : n \in (-1)..MaxNormScore}

NormInputs ==
    UNION {[1..n -> [score : NormScores]] : n \in 0..MaxNormLen}

NormInit ==
    /\ ChunkerIdle
    /\ AppIdle
    /\ RetrieverIdle
    /\ ConcIdle
    /\ norm_input \in NormInputs
    /\ norm_output = <<>>
    /\ npc = "input"

\* v_normalized = _normalize_scores(results)
NormalizeCall ==
    /\ npc = "input"
    /\ norm_output' = normalize_scores(norm_input)
    /\ npc' = "normalized"
    /\ UNCHANGED norm_input
    /\ UNCHANGED <<chunkVars, retrVars, concVars, appVars>>

\* _normalize_scores applied to results that carry the normalized scores
RenormalizeCall ==
    /\ npc = "normalized"
    /\ norm_input' = [i \in 1..Len(norm_output) |-> [score |-> norm_output[i]]]
    /\ norm_output' = normalize_scores(norm_input')
    /\ npc' = "renormalized"
    /\ UNCHANGED <<chunkVars, retrVars, concVars, appVars>>

NormNext == NormalizeCall \/ RenormalizeCall

SpecNormalize == NormInit /\ [][NormNext]_vars

InputScores == [i \in 1..Len(norm_input) |-> norm_input[i].score]

AllEqual(xs) == \A i, j \in 1..Len(xs) : xs[i] = xs[j]

\* C16: normalizing a list that is already normalized (min 0, max 1) returns
\* every score unchanged; a list whose scores are all equal is mapped to 0.5
\* for every element.
C16_NormalizationIdempotent ==
    (npc \in {"normalized", "renormalized"} /\ norm_input # <<>>) =>
        /\ (SeqMin(InputScores) = 0 /\ SeqMax(InputScores) = SCALE) =>
            norm_output = InputScores
        /\ AllEqual(InputScores) =>
            norm_output = [i \in 1..Len(norm_input) |-> SCALE \div 2]

\* the normalized scores of a list, with a value strictly between 0 and 1,
\* have been normalized again
C16_Witness ==
    /\ npc = "renormalized"
    /\ Len(norm_input) >= 3
    /\ SeqMin(InputScores) = 0
    /\ SeqMax(InputScores) = SCALE
    /\ \E i \in 1..Len(norm_input) : 0 < InputScores[i] /\ InputScores[i] < SCALE
    /\ norm_output = InputScores

\* C20: a list is normalized as (score - min) / (max - min); when all its
\* scores are equal (a one-element list included) or its max is 0, every
\* result gets 0.5 and nothing is divided by zero; an empty list yields no
\* scores; every normalized score lies in [0, 1].
C20_PerListNormalization ==
    npc \in {"normalized", "renormalized"} =>
        /\ Len(norm_output) = Len(norm_input)
        /\ norm_input = <<>> => norm_output = <<>>
        /\ \A i \in 1..Len(norm_output) :
            /\ 0 <= norm_output[i]
            /\ norm_output[i] <= SCALE
            /\ IF AllEqual(InputScores) \/ SeqMax(InputScores) = 0
               THEN norm_output[i] = SCALE \div 2
               ELSE /\ SeqMax(InputScores) - SeqMin(InputScores) # 0
                    /\ norm_output[i] * (SeqMax(InputScores) - SeqMin(InputScores))
                        = (InputScores[i] - SeqMin(InputScores)) * SCALE

\* a list whose max is 0 while its scores differ got 0.5 throughout
C20_Witness ==
    /\ npc = "normalized"
    /\ Len(norm_input) >= 2
    /\ SeqMax(InputScores) = 0
    /\ ~AllEqual(InputScores)
    /\ \A i \in 1..Len(norm_output) : norm_output[i] = SCALE \div 2

-----------------------------------------------------------------------------
(* Concurrent retrieve calls on the one Retriever instance.  Each thread    *)
(* runs retrieve -> hybrid_search statement by statement on its own locals; *)
(* self.collection, self.documents and the lexical index are shared.  The   *)
(* two indices are deterministic: what they answer for a query is fixed by  *)
(* world.                                                                   *)

\* Bound of the concurrency model
MaxThreads == 2

Threads == 1..MaxThreads

ConcQueries == {QPlain, QMaterials}

\* the chunks the retriever was built over
ConcDocs == <<DocBook, DocPlain>>

\* cosine distances 0.0 and 1.0
ConcDistances == {0, SCALE}

\* lexical scores 0 and 1: both queries hold the token "x" and no other
\* token of the chunks, so a chunk scores the same for either query
ConcScores == {0, 1}

Worlds ==
    [docs : {ConcDocs},
     dist : [ConcQueries -> [TextsOf(ConcDocs) -> ConcDistances]],
     sc : [TextsOf(ConcDocs) -> ConcScores]]

\* a thread that is not inside retrieve
NoCall == [pc |-> "idle", query |-> <<>>, vector_results |-> <<>>,
           bm25_results |-> <<>>, merged |-> <<>>, results |-> <<>>,
           confidence |-> 0]

ConcInit ==
    /\ ChunkerIdle
    /\ AppIdle
    /\ NormIdle
    /\ collection = [exists |-> TRUE, documents |-> ConcDocs]
    /\ retriever_instance = [loaded |-> TRUE, documents |-> ConcDocs]
    /\ index_runs = 1
    /\ req = NoRequest
    /\ raw_vector = <<>>
    /\ raw_bm25 = <<>>
    /\ vector_results = <<>>
    /\ bm25_results = <<>>
    /\ merged = <<>>
    /\ results = <<>>
    /\ confidence = 0
    /\ outcome = "none"
    /\ http_status = 0
    /\ hpc = "idle"
    /\ calls = [t \in Threads |-> NoCall]
    /\ world \in Worlds

\* the order in which the dense index returns docs for query q: fixed
DenseOrderOf(docs, q) == CHOOSE f \in DenseOrders(docs, world.dist[q]) : TRUE

\* the order np.argsort gives for the lexical scores: fixed
Bm25OrderOf(docs) == CHOOSE f \in Bm25Orders(docs, world.sc) : TRUE

ConcStep(t, c) ==
    /\ calls' = [calls EXCEPT ![t] = c]
    /\ UNCHANGED world
    /\ UNCHANGED <<chunkVars, retrVars, normVars, appVars>>

\* retriever.retrieve(query, TOP_K) is entered
BeginRetrieve(t, q) ==
    /\ calls[t].pc = "idle"
    /\ ConcStep(t, [NoCall EXCEPT !.pc = "vector_search", !.query = q])

\* vector_results = self.vector_search(query, top_k * 2)
VectorSearchStep(t) ==
    /\ calls[t].pc = "vector_search"
    /\ ConcStep(t, [calls[t] EXCEPT
            !.pc = "bm25_search",
            !.vector_results =
                vector_search(collection.documents, world.dist[calls[t].query],
                              DenseOrderOf(collection.documents, calls[t].query),
                              TOP_K * 2)])

\* bm25_results = self.bm25_search(query, top_k * 2)
Bm25SearchStep(t) ==
    /\ calls[t].pc = "bm25_search"
    /\ ConcStep(t, [calls[t] EXCEPT
            !.pc = "normalize",
            !.bm25_results =
                bm25_search(retriever_instance.documents, world.sc,
                            Bm25OrderOf(retriever_instance.documents),
                            TOP_K * 2)])

\* the normalized_score of every result of both lists is set, boosted for a
\* materials query
NormalizeStep(t) ==
    /\ calls[t].pc = "normalize"
    /\ ConcStep(t, [calls[t] EXCEPT
            !.pc = "merge",
            !.vector_results =
                WithNormalized(calls[t].vector_results,
                               QueryFamily(calls[t].query)),
            !.bm25_results =
                WithNormalized(calls[t].bm25_results,
                               QueryFamily(calls[t].query))])

\* result lists kept on the shared Retriever object: a thread reads the
\* lists another thread stored last
MergeInputShared(t) ==
    LET others == {o \in Threads :
                      o # t /\ calls[o].pc \in {"merge", "rank", "return", "done"}}
    IN  IF others = {} THEN [v |-> calls[t].vector_results,
                             b |-> calls[t].bm25_results]
        ELSE LET o == CHOOSE o \in others : TRUE
             IN  [v |-> calls[o].vector_results, b |-> calls[o].bm25_results]

\* the lists the merge loops of thread t iterate: its own locals
MergeInput(t) ==
    [v |-> calls[t].vector_results, b |-> calls[t].bm25_results]

\* merged = {} and the two merge loops
MergeStep(t) ==
    /\ calls[t].pc = "merge"
    /\ ConcStep(t, [calls[t] EXCEPT
            !.pc = "rank",
            !.merged = Merge(MergeInput(t).v, MergeInput(t).b)])

\* boost and clamp, sort, final_results[:top_k]
RankStep(t) ==
    /\ calls[t].pc = "rank"
    /\ ConcStep(t, [calls[t] EXCEPT
            !.pc = "return",
            !.results =
                Cut(SortDesc(<<>>,
                             ApplyBoost(calls[t].merged,
                                        KeywordBoost(QueryFamily(calls[t].query))),
                             1),
                    TOP_K)])

\* retrieve computes the confidence and returns
ReturnStep(t) ==
    /\ calls[t].pc = "return"
    /\ ConcStep(t, [calls[t] EXCEPT
            !.pc = "done",
            !.confidence = Confidence(calls[t].results)])

\* the caller is done with the results: the locals are discarded
EndRetrieve(t) ==
    /\ calls[t].pc = "done"
    /\ ConcStep(t, NoCall)

ConcNext ==
    \E t \in Threads :
        \/ \E q \in ConcQueries : BeginRetrieve(t, q)
        \/ VectorSearchStep(t)
        \/ Bm25SearchStep(t)
        \/ NormalizeStep(t)
        \/ MergeStep(t)
        \/ RankStep(t)
        \/ ReturnStep(t)
        \/ EndRetrieve(t)

SpecConcurrent == ConcInit /\ [][ConcNext]_vars

\* what retrieve(q, TOP_K) returns when it runs alone on the built retriever
SoloResults(q) ==
    hybrid_search(q,
                  vector_search(world.docs, world.dist[q],
                                DenseOrderOf(world.docs, q), TOP_K * 2),
                  bm25_search(world.docs, world.sc,
                              Bm25OrderOf(world.docs), TOP_K * 2),
                  TOP_K).results

C11_SharedStateKept ==
    /\ retriever_instance' = retriever_instance
    /\ collection' = collection

C11_SameAsAlone ==
    \A t \in Threads :
        calls[t].pc = "done" =>
            /\ calls[t].results = SoloResults(calls[t].query)
            /\ calls[t].confidence = Confidence(SoloResults(calls[t].query))
            /\ \A o \in Threads :
                (calls[o].pc = "done" /\ calls[o].query = calls[t].query) =>
                    /\ calls[o].results = calls[t].results
                    /\ calls[o].confidence = calls[t].confidence

\* C11: once the retriever is built no step of a retrieve call changes the
\* shared retriever state (documents, lexical index, collection); under any
\* interleaving of concurrent calls each call returns the results and the
\* confidence it returns when run alone, and calls with the same query
\* return the same outcome.
C11_ConcurrentRetrieve ==
    /\ [][C11_SharedStateKept]_vars
    /\ []C11_SameAsAlone

\* a call has returned while a call with another query, whose outcome is
\* different, is between its merge and its return
C11_Witness ==
    \E t, o \in Threads :
        /\ calls[t].pc = "done"
        /\ calls[o].pc \in {"rank", "return"}
        /\ calls[o].query # calls[t].query
        /\ calls[t].results # <<>>
        /\ calls[t].results # SoloResults(calls[o].query)

-----------------------------------------------------------------------------
(* Claims about the boost families *)

\* the normalized score list rs[i] has before any per-result boost
PlainNorm(rs, i) == normalize_scores(rs)[i]

\* every result of both lists kept its plain normalized score
NoPerResultBoost ==
    /\ \A i \in 1..Len(vector_results) :
        vector_results[i].normalized_score = PlainNorm(raw_vector, i)
    /\ \A i \in 1..Len(bm25_results) :
        bm25_results[i].normalized_score = PlainNorm(raw_bm25, i)

\* every returned score is its merged score plus the flat boost, clamped
FlatBoostIs(boost) ==
    \A i \in 1..Len(results) :
        \E n \in 1..Len(merged) :
            /\ merged[n].text = results[i].text
            /\ results[i].hybrid_score = Clamp01(merged[n].hybrid_score + boost)

\* C21: at most one family's boost is applied to a query, the locator family
\* first: a locator query, also one that holds a materials keyword, gets the
\* flat +0.15 only, with no +0.20 and no per-result +0.25; a materials query
\* that is no locator query gets no +0.15; any other query gets no boost.
C21_OneFamilyLocatorFirst ==
    outcome = "ok" =>
        IF ClaimLocatorQuery(req.query)
        THEN NoPerResultBoost /\ FlatBoostIs((15 * SCALE) \div 100)
        ELSE IF ClaimMaterialsQuery(req.query)
        THEN FlatBoostIs((20 * SCALE) \div 100)
        ELSE NoPerResultBoost /\ FlatBoostIs(0)

\* a locator query with a materials keyword over results whose text holds a
\* materials term and whose scores leave room for the other boosts
C21_Witness ==
    /\ outcome = "ok"
    /\ ClaimLocatorQuery(req.query)
    /\ ClaimMaterialsQuery(req.query)
    /\ \E i \in 1..Len(vector_results) :
        /\ HasMaterialsTerm(vector_results[i].text)
        /\ vector_results[i].normalized_score < SCALE
    /\ \E i \in 1..Len(bm25_results) : HasMaterialsTerm(bm25_results[i].text)
    /\ \E i \in 1..Len(results) :
        /\ HasMaterialsTerm(results[i].text)
        /\ results[i].hybrid_score + (20 * SCALE) \div 100 < SCALE

\* the per-result boost of list rs (raw list raw) is exactly +0.25
PerResultRaise(rs, raw) ==
    \A i \in 1..Len(rs) :
        rs[i].normalized_score =
            PlainNorm(raw, i)
            + (IF HasMaterialsTerm(raw[i].text) THEN (25 * SCALE) \div 100 ELSE 0)

\* the per-result boost of list rs (raw list raw) is +0.25, capped at 1.0
PerResultRaiseCapped(rs, raw) ==
    \A i \in 1..Len(rs) :
        rs[i].normalized_score =
            IF HasMaterialsTerm(raw[i].text)
            THEN Min(SCALE, PlainNorm(raw, i) + (25 * SCALE) \div 100)
            ELSE PlainNorm(raw, i)

\* C22 (as claimed): for a materials query that is no locator query every
\* result of either list whose own text holds a materials term has its
\* normalized score raised by 0.25 before the 0.6/0.4 combination, and every
\* fused score gets a flat +0.20 before clamping.
C22_MaterialsBoostExact ==
    (/\ outcome = "ok"
     /\ ClaimMaterialsQuery(req.query)
     /\ ~ClaimLocatorQuery(req.query)) =>
        /\ PerResultRaise(vector_results, raw_vector)
        /\ PerResultRaise(bm25_results, raw_bm25)
        /\ FlatBoostIs((20 * SCALE) \div 100)

\* C22 (amended): for a materials query that is no locator query every result
\* of either list whose own text holds a materials term has its normalized
\* score raised by 0.25, capped at 1.0, before the 0.6/0.4 combination (the
\* other results keep theirs), and every fused score gets a flat +0.20
\* before clamping.
C22_MaterialsBoostCapped ==
    (/\ outcome = "ok"
     /\ ClaimMaterialsQuery(req.query)
     /\ ~ClaimLocatorQuery(req.query)) =>
        /\ PerResultRaiseCapped(vector_results, raw_vector)
        /\ PerResultRaiseCapped(bm25_results, raw_bm25)
        /\ \A n \in 1..Len(merged) :
            merged[n].hybrid_score =
                WeightedSum(vector_results, merged[n].text, 6)
                + WeightedSum(bm25_results, merged[n].text, 4)
        /\ FlatBoostIs((20 * SCALE) \div 100)

\* a materials query: one result raised by the full 0.25, one capped at 1.0,
\* one without a materials term left alone
C22_Witness ==
    /\ outcome = "ok"
    /\ ClaimMaterialsQuery(req.query)
    /\ ~ClaimLocatorQuery(req.query)
    /\ \E i \in 1..Len(bm25_results) :
        /\ HasMaterialsTerm(bm25_results[i].text)
        /\ bm25_results[i].normalized_score
            = PlainNorm(raw_bm25, i) + (25 * SCALE) \div 100
    /\ \E i \in 1..Len(vector_results) :
        /\ HasMaterialsTerm(vector_results[i].text)
        /\ PlainNorm(raw_vector, i) + (25 * SCALE) \div 100 > SCALE
        /\ vector_results[i].normalized_score = SCALE
    /\ \E i \in 1..Len(vector_results) : ~HasMaterialsTerm(vector_results[i].text)

-----------------------------------------------------------------------------
(* Claims about chunk_text: the size cap, the cursor, malformed markers and *)
(* the offsets                                                              *)

\* offset pos lies inside a table or slide region
InRegion(pos) == \E r \in Regions : r[1] <= pos /\ pos < r[2]

\* the chunk the step appended, if it appended one
NewChunk == chunks'[Len(chunks')]

C23_OrdinaryStep ==
    (cpc = "loop" /\ start < Len(text) /\ ~InRegion(start)
        /\ Len(chunks') = Len(chunks) + 1) =>
        /\ NewChunk.start_char = start
        /\ NewChunk.end_char - NewChunk.start_char <= 2 * chunk_size
        /\ IF InRegion(start + chunk_size)
           THEN \E r \in Regions :
                    /\ r[1] <= start + chunk_size /\ start + chunk_size < r[2]
                    /\ NewChunk.end_char = Min(r[2], start + 2 * chunk_size)
           ELSE NewChunk.end_char = start + chunk_size

\* C23: every chunk emitted with the cursor outside a protected region has
\* end_char - start_char <= 2 * chunk_size; its end is min(region end,
\* cursor + 2 * chunk_size) when cursor + chunk_size falls inside a protected
\* region and cursor + chunk_size otherwise.
C23_OrdinaryCap == [][C23_OrdinaryStep]_vars

\* an ordinary chunk cut at exactly 2 * chunk_size inside a longer region
C23_Witness ==
    /\ lastStep.kind = "ordinary"
    /\ chunks # <<>>
    /\ chunks[Len(chunks)].start_char = lastStep.from
    /\ chunks[Len(chunks)].end_char = lastStep.from + 2 * chunk_size
    /\ \E r \in Regions :
        /\ r[1] <= lastStep.from + chunk_size
        /\ lastStep.from + chunk_size < r[2]
        /\ r[2] > lastStep.from + 2 * chunk_size
    /\ chunk_size >= 2

C24_CursorStep ==
    (cpc = "loop" /\ start < Len(text)) =>
        /\ IF InRegion(start)
           THEN \E r \in Regions :
                    r[1] <= start /\ start < r[2] /\ start' = r[2]
           ELSE start' = start + chunk_size - overlap
        /\ Len(chunks') > Len(chunks) =>
            (Len(chunks') = Len(chunks) + 1 /\ NewChunk.start_char = start)

\* C24: after a step taken with the cursor inside a protected region the
\* cursor is exactly that region's end (not end - overlap), and as every
\* chunk starts at the cursor of its step the next chunk starts at or after
\* that end; after an ordinary step the cursor has advanced by exactly
\* chunk_size - overlap, also when the chunk's end was extended.
C24_CursorAfterStep ==
    /\ [][C24_CursorStep]_vars
    /\ [](lastStep.kind = "protected" =>
            (start = lastStep.region_end
             /\ \A i \in 1..Len(chunks) :
                 chunks[i].start_char < lastStep.region_end))

\* an ordinary step whose chunk was extended past chunk_size left the cursor
\* chunk_size - overlap further, inside the chunk just emitted.  The overlap
\* is positive.
C24_Witness ==
    /\ lastStep.kind = "ordinary"
    /\ overlap > 0
    /\ chunks # <<>>
    /\ chunks[Len(chunks)].start_char = lastStep.from
    /\ chunks[Len(chunks)].end_char > lastStep.from + chunk_size
    /\ start = lastStep.from + chunk_size - overlap
    /\ start < chunks[Len(chunks)].end_char

\* the offsets of the opening table markers without a closing marker after
UnclosedOpeners ==
    {s \in 0..Len(text) : TableOpensAt(s) /\ ClosingEndsAfter(s) = {}}

\* the offsets of the opening table markers with a closing marker after
ClosedOpeners == {s \in 0..Len(text) : WellFormedTableAt(s)}

C25_Ranges ==
    /\ {table_ranges[i] : i \in 1..Len(table_ranges)}
        = {<<s, TableEndFor(s)>> : s \in ClosedOpeners}
    /\ \A s \in UnclosedOpeners :
        /\ \A i \in 1..Len(table_ranges) :
            table_ranges[i][1] # s /\ table_ranges[i][2] <= s
        /\ \A pos \in s..Len(text) :
            FirstCovering(table_ranges, pos, 1) = 0

\* C25: an opening table marker with no closing marker after it yields no
\* table region and no position from it on is protected by the table check;
\* each opening marker that has one is paired with the nearest closing marker
\* after it; chunk_text terminates and returns its chunks.  The regions are
\* computed before the loop and stay as they are.
C25_MalformedTolerated ==
    /\ [](lastStep.kind = "none" /\ cpc = "loop" => C25_Ranges)
    /\ [][table_ranges' = table_ranges /\ text' = text]_vars
    /\ <>(cpc = "done")

\* a returned run over a text with a closed table followed by an opening
\* marker that is never closed
C25_Witness ==
    /\ cpc = "done"
    /\ UnclosedOpeners # {}
    /\ ClosedOpeners # {}
    /\ \E i \in 1..Len(chunks) :
        \E s \in UnclosedOpeners : chunks[i].start_char >= s

\* C27 (as claimed): every chunk returned by chunk_text has
\* 0 <= start_char < end_char <= len(text), its text is
\* text[start_char:end_char] and len(chunk text) = end_char - start_char,
\* the last chunk included.
C27_OffsetConsistency ==
    \A c \in ChunkSet :
        /\ 0 <= c.start_char
        /\ c.start_char < c.end_char
        /\ c.end_char <= Len(text)
        /\ c.text = Slice(text, c.start_char, c.end_char)
        /\ Len(c.text) = c.end_char - c.start_char

-----------------------------------------------------------------------------
(* store_in_chroma (indexer.py): the collection is looked up, emptied and   *)
(* created again, then the chunks are added under the ids "0" .. "n-1".     *)
(* The Chroma client is modelled by what the calls do: get_collection       *)
(* raises when the collection does not exist, create_collection raises when *)
(* it exists, delete removes the given ids, add stores the entries whose    *)
(* ids are not yet present.                                                 *)

MaxStoreChunks == 2
MaxStoreRuns == 2

\* the chunk lists handed to store_in_chroma, numbered as create_chunks does
StoreChunkLists ==
    {[i \in 1..Len(ts) |-> [text |-> ts[i], chunk_id |-> i - 1]] :
        ts \in UNION {[1..n -> {DocBook, DocPlain}] : n \in 0..MaxStoreChunks}}

\* client.get_collection(COLLECTION_NAME)
get_collection(c) == IF c.exists THEN "ok" ELSE "raise"

\* client.create_collection(COLLECTION_NAME)
create_collection(c) == IF c.exists THEN "raise" ELSE "ok"

\* a delete that removes nothing
delete_nothing(c, ids) == c

\* collection.delete(ids=all_ids)
delete_ids(c, ids) ==
    [c EXCEPT !.entries = [id \in (DOMAIN c.entries) \ ids |-> c.entries[id]]]

\* all_ids = collection.get()['ids']; if all_ids: collection.delete(...)
delete_all(c) ==
    IF DOMAIN c.entries # {} THEN delete_ids(c, DOMAIN c.entries) ELSE c

\* ids = [f"{i}" for i in range(len(chunks))]
StoreIds(chs) == {ToString(i) : i \in 0..(Len(chs) - 1)}

\* the chunk stored under id
ChunkOfId(chs, id) ==
    chs[(CHOOSE i \in 0..(Len(chs) - 1) : ToString(i) = id) + 1]

\* collection.add(ids=ids, documents=texts, ...): an id already present keeps
\* its entry
add(c, chs) ==
    [c EXCEPT !.entries =
        [id \in (DOMAIN c.entries) \cup StoreIds(chs) |->
            IF id \in DOMAIN c.entries THEN c.entries[id]
            ELSE ChunkOfId(chs, id).text]]

\* what collection.add does with empty lists depends on the client version:
\* it raises or it adds nothing
AddOutcomes(chs) == IF Len(chs) = 0 THEN {"raise", "ok"} ELSE {"ok"}

StoreInit ==
    /\ ChunkerIdle /\ RetrieverIdle /\ NormIdle /\ ConcIdle
    /\ StoreIdle /\ LoadIdle /\ CtxIdle /\ AnsIdle

StoreOthers == UNCHANGED <<chunkVars, retrVars, normVars, concVars,
                           loadVars, ctxVars, ansVars>>

\* store_in_chroma is called
StoreBegin(chs) ==
    /\ spc = "idle"
    /\ store_runs < MaxStoreRuns
    /\ store_runs' = store_runs + 1
    /\ store_chunks' = chs
    /\ chroma_before' = chroma
    /\ spc' = "try"
    /\ UNCHANGED chroma
    /\ StoreOthers

\* the try block: get_collection, delete every id, create_collection.  One of
\* the two calls raises: the first without a collection, the last with one.
StoreTry ==
    /\ spc = "try"
    /\ IF get_collection(chroma) = "raise"
       THEN UNCHANGED chroma
       ELSE chroma' = delete_all(chroma)
    /\ spc' = IF get_collection(chroma) = "ok"
                 /\ create_collection(chroma) = "ok"
              THEN "add" ELSE "except"
    /\ UNCHANGED <<chroma_before, store_chunks, store_runs>>
    /\ StoreOthers

\* the except block: create_collection
StoreExcept ==
    /\ spc = "except"
    /\ IF create_collection(chroma) = "ok"
       THEN /\ chroma' = [exists |-> TRUE, entries |-> <<>>]
            /\ spc' = "add"
       ELSE /\ UNCHANGED chroma
            /\ spc' = "except_create"
    /\ UNCHANGED <<chroma_before, store_chunks, store_runs>>
    /\ StoreOthers

\* the inner except block: get_collection and delete every id
StoreExceptCreate ==
    /\ spc = "except_create"
    /\ IF get_collection(chroma) = "raise"
       THEN UNCHANGED chroma /\ spc' = "raised"
       ELSE chroma' = delete_all(chroma) /\ spc' = "add"
    /\ UNCHANGED <<chroma_before, store_chunks, store_runs>>
    /\ StoreOthers

\* collection.add(...) and the return
StoreAdd ==
    /\ spc = "add"
    /\ \E o \in AddOutcomes(store_chunks) :
        IF o = "raise"
        THEN UNCHANGED chroma /\ spc' = "raised"
        ELSE chroma' = add(chroma, store_chunks) /\ spc' = "done"
    /\ UNCHANGED <<chroma_before, store_chunks, store_runs>>
    /\ StoreOthers

\* the indexer process ends; the collection stays on disk
StoreEnd ==
    /\ spc \in {"done", "raised"}
    /\ spc' = "idle"
    /\ UNCHANGED <<chroma, chroma_before, store_chunks, store_runs>>
    /\ StoreOthers

StoreNext ==
    \/ \E chs \in StoreChunkLists : StoreBegin(chs)
    \/ StoreTry
    \/ StoreExcept
    \/ StoreExceptCreate
    \/ StoreAdd
    \/ StoreEnd

SpecStore == StoreInit /\ [][StoreNext]_vars

\* C26: once store_in_chroma has completed, the collection holds exactly the
\* given chunks under the ids "0" .. "n-1" and nothing of an earlier run,
\* whether the collection was absent, empty or populated before.
C26_WholesaleRebuild ==
    spc = "done" =>
        /\ chroma.exists
        /\ DOMAIN chroma.entries = StoreIds(store_chunks)
        /\ \A i \in 0..(Len(store_chunks) - 1) :
            chroma.entries[ToString(i)] = store_chunks[i + 1].text

\* a completed run of one chunk over a collection that held two other chunks
C26_Witness ==
    /\ spc = "done"
    /\ chroma_before.exists
    /\ Cardinality(DOMAIN chroma_before.entries) > Len(store_chunks)
    /\ Len(store_chunks) >= 1
    /\ chroma_before.entries["0"] # store_chunks[1].text

-----------------------------------------------------------------------------
(* get_retriever (retriever.py) called by handlers that run in parallel     *)
(* threads (/debug/retrieve and /debug/context are plain def handlers): the *)
(* test of the global, the construction of the Retriever, the assignment    *)
(* and the return's read of the global are separate steps of a thread.      *)

MaxLoadThreads == 2
MaxLoadCalls == 2

LoadThreads == 1..MaxLoadThreads

\* a thread outside get_retriever
NoLoad == [pc |-> "idle", fresh |-> 0, made |-> 0]

LoadInit ==
    /\ ChunkerIdle /\ NormIdle /\ ConcIdle
    /\ StoreIdle /\ CtxIdle /\ AnsIdle
    /\ collection \in {[exists |-> FALSE, documents |-> <<>>],
                       [exists |-> TRUE, documents |-> ConcDocs]}
    /\ retriever_instance = [loaded |-> FALSE, documents |-> <<>>]
    /\ index_runs = IF collection.exists THEN 1 ELSE 0
    /\ req = NoRequest
    /\ raw_vector = <<>>
    /\ raw_bm25 = <<>>
    /\ vector_results = <<>>
    /\ bm25_results = <<>>
    /\ merged = <<>>
    /\ results = <<>>
    /\ confidence = 0
    /\ outcome = "none"
    /\ http_status = 0
    /\ hpc = "idle"
    /\ global_instance = 0
    /\ constructed = 0
    /\ loaders = [t \in LoadThreads |-> NoLoad]
    /\ returns = {}

LoadOthers == UNCHANGED <<chunkVars, retrVars, normVars, concVars,
                          storeVars, ctxVars, ansVars>>

\* a handler calls get_retriever()
LoadCall(t) ==
    /\ loaders[t].pc = "idle"
    /\ loaders[t].made < MaxLoadCalls
    /\ loaders' = [loaders EXCEPT ![t].pc = "check"]
    /\ UNCHANGED <<global_instance, constructed, returns>>
    /\ LoadOthers

\* if _retriever_instance is None
LoadCheck(t) ==
    /\ loaders[t].pc = "check"
    /\ loaders' = [loaders EXCEPT ![t].pc =
                      IF global_instance = 0 THEN "construct" ELSE "return"]
    /\ UNCHANGED <<global_instance, constructed, returns>>
    /\ LoadOthers

\* Retriever(): a new object, or ValueError without a collection
LoadConstruct(t) ==
    /\ loaders[t].pc = "construct"
    /\ \E o \in ConstructOutcomes :
        IF o = "ok"
        THEN /\ constructed' = constructed + 1
             /\ loaders' = [loaders EXCEPT ![t].pc = "assign",
                                           ![t].fresh = constructed + 1]
        ELSE /\ UNCHANGED constructed
             /\ loaders' = [loaders EXCEPT ![t].pc = "idle",
                                           ![t].made = @ + 1]
    /\ UNCHANGED <<global_instance, returns>>
    /\ LoadOthers

\* _retriever_instance = <the new object>
LoadAssign(t) ==
    /\ loaders[t].pc = "assign"
    /\ global_instance' = loaders[t].fresh
    /\ loaders' = [loaders EXCEPT ![t].pc = "return"]
    /\ UNCHANGED <<constructed, returns>>
    /\ LoadOthers

\* return _retriever_instance
LoadReturn(t) ==
    /\ loaders[t].pc = "return"
    /\ returns' = returns \cup {global_instance}
    /\ loaders' = [loaders EXCEPT ![t].pc = "idle", ![t].fresh = 0,
                                  ![t].made = @ + 1]
    /\ UNCHANGED <<global_instance, constructed>>
    /\ LoadOthers

LoadNext ==
    \E t \in LoadThreads :
        \/ LoadCall(t)
        \/ LoadCheck(t)
        \/ LoadConstruct(t)
        \/ LoadAssign(t)
        \/ LoadReturn(t)

SpecLoad == LoadInit /\ [][LoadNext]_vars

\* C28 (as claimed): under any interleaving of concurrent first calls of
\* get_retriever at most one Retriever is ever constructed and every call
\* returns that same instance.
C28_LoadOnce ==
    /\ constructed <= 1
    /\ Cardinality(returns) <= 1

-----------------------------------------------------------------------------
(* The bounded context of /chat and /debug/context (app.py).  The strings   *)
(* are modelled by their lengths: a chunk by len(text) and len(breadcrumb), *)
(* a block by len(block), the context by the sum over blocks.               *)

MaxCtxChunks == 2

\* config.MAX_CONTEXT_CHARS
MAX_CONTEXT_CHARS == 12000

\* the default of parameter cap of /debug/context
DefaultDebugCap == 15000

\* lengths of chunk texts: a short chunk, an extended chunk, a long slide
CtxTextLens == {200, 2400, 11900}

\* lengths of breadcrumbs: "Unknown" and two paths
CtxBcLens == {7, 32, 33}

CtxChunkLists ==
    UNION {[1..n -> [text_len : CtxTextLens, bc_len : CtxBcLens]] :
              n \in 0..MaxCtxChunks}

\* len(str(n)) for n >= 0
RECURSIVE Digits(_)
Digits(n) == IF n < 10 THEN 1 ELSE 1 + Digits(n \div 10)

\* len(f"[Source {i} - {bc}]\n")
HeaderLen(i, bc_len) == 8 + Digits(i) + 3 + bc_len + 2

\* len(f"[Source {i} - {bc}]\n{chunk['text']}\n")
BlockLen(i, ch) == HeaderLen(i, ch.bc_len) + ch.text_len + 1

\* len(f"[Source {i} - {bc}]\n{chunk['text'][:remaining-50]}...\n")
TruncatedBlockLen(i, ch, remaining) ==
    HeaderLen(i, ch.bc_len) + Min(ch.text_len, remaining - 50) + 4

\* len("".join(blocks))
RECURSIVE JoinLen(_)
JoinLen(blocks) ==
    IF blocks = <<>> THEN 0 ELSE Head(blocks) + JoinLen(Tail(blocks))

\* /chat builds the context of a non-empty retrieval under MAX_CONTEXT_CHARS,
\* /debug/context of any retrieval under its parameter cap
CtxInit ==
    /\ ChunkerIdle /\ RetrieverIdle /\ NormIdle /\ ConcIdle
    /\ StoreIdle /\ LoadIdle /\ AnsIdle
    /\ \/ \E chs \in CtxChunkLists \ {<<>>} :
            ctx_req = [endpoint |-> "chat", cap |-> MAX_CONTEXT_CHARS,
                       top_chunks |-> chs]
       \/ \E chs \in CtxChunkLists, cap \in {MAX_CONTEXT_CHARS, DefaultDebugCap} :
            ctx_req = [endpoint |-> "debug_context", cap |-> cap,
                       top_chunks |-> chs]
    /\ ctx_i = 1
    /\ ctx_total = 0
    /\ ctx_blocks = <<>>
    /\ ctx_pc = "loop"

CtxOthers == UNCHANGED <<chunkVars, retrVars, normVars, concVars,
                         storeVars, loadVars, ansVars>>

\* the block of the next chunk does not fit
CtxOverflows ==
    /\ ctx_pc = "loop"
    /\ ctx_i <= Len(ctx_req.top_chunks)
    /\ ctx_total + BlockLen(ctx_i, ctx_req.top_chunks[ctx_i]) > ctx_req.cap

\* the block fits: blocks.append(block); total += len(block)
CtxAppend ==
    /\ ctx_pc = "loop"
    /\ ctx_i <= Len(ctx_req.top_chunks)
    /\ ~CtxOverflows
    /\ ctx_blocks' =
        Append(ctx_blocks, BlockLen(ctx_i, ctx_req.top_chunks[ctx_i]))
    /\ ctx_total' = ctx_total + BlockLen(ctx_i, ctx_req.top_chunks[ctx_i])
    /\ ctx_i' = ctx_i + 1
    /\ UNCHANGED <<ctx_req, ctx_pc>>
    /\ CtxOthers

\* the block does not fit and remaining > 200: a truncated block, then break
CtxTruncate ==
    /\ CtxOverflows
    /\ ctx_req.cap - ctx_total > 200
    /\ ctx_blocks' =
        Append(ctx_blocks,
               TruncatedBlockLen(ctx_i, ctx_req.top_chunks[ctx_i],
                                 ctx_req.cap - ctx_total))
    /\ ctx_pc' = "join"
    /\ UNCHANGED <<ctx_req, ctx_i, ctx_total>>
    /\ CtxOthers

\* the block does not fit and remaining <= 200: break
CtxBreak ==
    /\ CtxOverflows
    /\ ctx_req.cap - ctx_total <= 200
    /\ ctx_pc' = "join"
    /\ UNCHANGED <<ctx_req, ctx_i, ctx_total, ctx_blocks>>
    /\ CtxOthers

\* the loop has ended: context = "".join(blocks)
CtxJoin ==
    /\ \/ ctx_pc = "join"
       \/ ctx_pc = "loop" /\ ctx_i > Len(ctx_req.top_chunks)
    /\ ctx_pc' = "done"
    /\ UNCHANGED <<ctx_req, ctx_i, ctx_total, ctx_blocks>>
    /\ CtxOthers

CtxNext ==
    \/ CtxAppend
    \/ CtxTruncate
    \/ CtxBreak
    \/ CtxJoin

SpecContext == CtxInit /\ [][CtxNext]_vars

\* C29 (as claimed): the context string built from the retrieved chunks is
\* never longer than the cap, whatever the number of chunks, their text
\* lengths and their breadcrumb lengths, a truncated last block included.
C29_BoundedContext ==
    ctx_pc = "done" => JoinLen(ctx_blocks) <= ctx_req.cap

-----------------------------------------------------------------------------
(* The answer chain of /chat (app.py) for a retrieval with at least one     *)
(* chunk: the hardcoded grading answers, LlamaIndex Gemini, manual Gemini,  *)
(* the extractive fallback.  The local answer is <<>> for None and <<s>>    *)
(* for the string s.  What the query classification and the line scans of   *)
(* the extractive fallback find is an input; what is made of it is          *)
(* computed as the code does.                                               *)

MaxItems == 2

\* the first line of the hardcoded grading scale
GradingScaleAnswer ==
    <<"G", "r", "a", "d", "i", "n", "g", " ", "S", "c", "a", "l", "e",
      ":">>

\* the first line of the hardcoded assignment weights
GradedActivitiesAnswer ==
    <<"G", "r", "a", "d", "e", "d", " ", "A", "c", "t", "i", "v", "i",
      "t", "i", "e", "s", " ", "(", "T", "o", "t", "a", "l", ":", " ",
      "1", "0", "0", " ", "p", "o", "i", "n", "t", "s", ")", ":">>

\* the answer of last resort
NotFoundAnswer ==
    <<"I", " ", "c", "o", "u", "l", "d", "n", "'", "t", " ", "f", "i",
      "n", "d", " ", "r", "e", "l", "e", "v", "a", "n", "t", " ", "i",
      "n", "f", "o", "r", "m", "a", "t", "i", "o", "n", " ", "t", "o",
      " ", "a", "n", "s", "w", "e", "r", " ", "y", "o", "u", "r", " ",
      "q", "u", "e", "s", "t", "i", "o", "n", ".">>

\* the answer sources in the order of the code
SourceRank(src) ==
    CASE src = "hardcoded" -> 1
      [] src = "llamaindex" -> 2
      [] src = "gemini" -> 3
      [] src = "extractive" -> 4

\* texts an LLM can return: empty, blank, an answer
LlmTexts == {<<>>, <<" ">>, <<"o", "k">>}

\* what can happen to an LLM call: it returns a text, returns a response
\* without text, times out, fails with an error, or cannot be set up
LlmBehaviours ==
    {[kind |-> "text", text |-> t] : t \in LlmTexts}
    \cup {[kind |-> k, text |-> <<>>] :
             k \in {"none", "timeout", "error", "unavailable"}}

\* get_llamaindex_gemini() and LlamaIndexGemini.generate: the constructor
\* raises without API key; generate returns the response text, or None after
\* a timeout, an error or a response without text
LlamaIndexCall(b) ==
    CASE b.kind = "unavailable" -> [raised |-> TRUE, value |-> <<>>]
      [] b.kind = "text" -> [raised |-> FALSE, value |-> <<b.text>>]
      [] OTHER -> [raised |-> FALSE, value |-> <<>>]

\* generate_answer_with_gemini: None without API key, the response text when
\* it is truthy, else the text of a candidate part if there is one, None
\* after a timeout or an error
generate_answer_with_gemini(b) ==
    CASE b.kind = "text" -> [raised |-> FALSE, value |-> <<b.text>>]
      [] OTHER -> [raised |-> FALSE, value |-> <<>>]

\* answer and answer.strip()
Truthy(a) == a # <<>> /\ StripNonEmpty(a[1])

\* a handler that lets the exception of the LlamaIndex call through
AfterLlamaIndexUncaught(r) ==
    IF r.raised THEN [escaped |-> TRUE, answer |-> <<>>]
    ELSE [escaped |-> FALSE,
          answer |-> IF Truthy(r.value) THEN r.value ELSE <<>>]

\* the try/except around the LlamaIndex call: an exception leaves answer None,
\* an empty or blank text is reset to None
AfterLlamaIndex(r) ==
    IF r.raised THEN [escaped |-> FALSE, answer |-> <<>>]
    ELSE [escaped |-> FALSE,
          answer |-> IF Truthy(r.value) THEN r.value ELSE <<>>]

\* the try/except around the manual Gemini call
AfterGemini(r) ==
    IF r.raised THEN [escaped |-> FALSE, answer |-> <<>>]
    ELSE [escaped |-> FALSE,
          answer |-> IF Truthy(r.value) THEN r.value ELSE <<>>]

\* "\n".join(lines)
RECURSIVE JoinLines(_)
JoinLines(lines) ==
    IF lines = <<>> THEN <<>>
    ELSE IF Len(lines) = 1 THEN lines[1]
    ELSE lines[1] \o <<"\n">> \o JoinLines(Tail(lines))

\* [f"{i+1}. {m}" for i, m in enumerate(materials)], fewer than ten entries
NumberedLines(items) ==
    [i \in 1..Len(items) |->
        <<<<"1", "2", "3", "4", "5", "6", "7", "8", "9">>[i], ".", " ">>
        \o items[i]]

\* a or b for strings
OrElse(a, b) == IF a # <<>> THEN a ELSE b

\* lines found by the scans of the extractive fallback: non-blank lines
FoundLines(alphabet, n) == UNION {[1..k -> alphabet] : k \in 0..n}

\* the text of the first retrieved chunk
Primaries == {<<" ">>, <<"x">>, <<" ", "x">>}

\* what the extractive fallback works on: the branch the query and the
\* primary chunk select, the materials, grades or best section it extracts,
\* the first meaningful lines, the primary chunk
ExtractInputs ==
    [branch : {"materials", "grading"},
     items : FoundLines({<<"x">>}, MaxItems),
     lines : {<<>>},
     primary : Primaries]
    \cup [branch : {"general"},
          items : FoundLines({<<"x">>, <<" ", "y">>}, MaxItems),
          lines : FoundLines({<<"x", " ">>}, 1),
          primary : Primaries]

\* the extractive fallback
extractive_fallback(x) ==
    CASE x.branch = "materials" ->
            IF x.items # <<>> THEN JoinLines(NumberedLines(x.items))
            ELSE OrElse(Slice(Strip(x.primary), 0, 800), NotFoundAnswer)
      [] x.branch = "grading" ->
            IF x.items # <<>> THEN JoinLines(x.items)
            ELSE GradingScaleAnswer
      [] x.branch = "general" ->
            IF x.items # <<>>
            THEN LET a == Strip(JoinLines(Slice(x.items, 0, 10)))
                 IN  IF Len(a) > 800
                     THEN Slice(a, 0, 800) \o <<".", ".", ".">>
                     ELSE a
            ELSE IF x.lines # <<>>
            THEN OrElse(Slice(Strip(JoinLines(x.lines)), 0, 800),
                        NotFoundAnswer)
            ELSE OrElse(Slice(x.primary, 0, 800), NotFoundAnswer)

\* retrieval has returned chunks and the context is built
AnsInit ==
    /\ ChunkerIdle /\ RetrieverIdle /\ NormIdle /\ ConcIdle
    /\ StoreIdle /\ LoadIdle /\ CtxIdle
    /\ ans_req \in [kind : {"threshold", "weight", "other"},
                    llamaindex_available : BOOLEAN,
                    extract : ExtractInputs]
    /\ answer = <<>>
    /\ tried = <<>>
    /\ apc = "hardcoded"

AnsOthers == UNCHANGED <<chunkVars, retrVars, normVars, concVars,
                         storeVars, loadVars, ctxVars>>

\* the hardcoded grading scale or assignment weights
AnsHardcoded ==
    /\ apc = "hardcoded"
    /\ answer' = CASE ans_req.kind = "threshold" -> <<GradingScaleAnswer>>
                   [] ans_req.kind = "weight" -> <<GradedActivitiesAnswer>>
                   [] OTHER -> <<>>
    /\ tried' = Append(tried, [source |-> "hardcoded", yield |-> answer'])
    /\ apc' = "llamaindex"
    /\ UNCHANGED ans_req
    /\ AnsOthers

\* if answer is None and LLAMAINDEX_AVAILABLE: try LlamaIndex Gemini
AnsLlamaIndex ==
    /\ apc = "llamaindex"
    /\ IF answer = <<>> /\ ans_req.llamaindex_available
       THEN \E b \in LlmBehaviours :
               LET r == LlamaIndexCall(b)
                   a == AfterLlamaIndex(r)
               IN  /\ tried' = Append(tried, [source |-> "llamaindex",
                                              yield |-> r.value])
                   /\ answer' = a.answer
                   /\ apc' = IF a.escaped THEN "error" ELSE "gemini"
       ELSE /\ UNCHANGED <<answer, tried>>
            /\ apc' = "gemini"
    /\ UNCHANGED ans_req
    /\ AnsOthers

\* if answer is None: try manual Gemini
AnsGemini ==
    /\ apc = "gemini"
    /\ IF answer = <<>>
       THEN \E b \in LlmBehaviours :
               LET r == generate_answer_with_gemini(b)
                   a == AfterGemini(r)
               IN  /\ tried' = Append(tried, [source |-> "gemini",
                                              yield |-> r.value])
                   /\ answer' = a.answer
                   /\ apc' = IF a.escaped THEN "error" ELSE "extractive"
       ELSE /\ UNCHANGED <<answer, tried>>
            /\ apc' = "extractive"
    /\ UNCHANGED ans_req
    /\ AnsOthers

\* if answer is None: the extractive fallback
AnsExtractive ==
    /\ apc = "extractive"
    /\ IF answer = <<>>
       THEN /\ answer' = <<extractive_fallback(ans_req.extract)>>
            /\ tried' = Append(tried, [source |-> "extractive",
                                       yield |-> answer'])
       ELSE UNCHANGED <<answer, tried>>
    /\ apc' = "respond"
    /\ UNCHANGED ans_req
    /\ AnsOthers

\* the sources are built and the ChatResponse is returned
AnsRespond ==
    /\ apc = "respond"
    /\ apc' = "done"
    /\ UNCHANGED <<ans_req, answer, tried>>
    /\ AnsOthers

AnsNext ==
    \/ AnsHardcoded
    \/ AnsLlamaIndex
    \/ AnsGemini
    \/ AnsExtractive
    \/ AnsRespond

SpecAnswer == AnsInit /\ [][AnsNext]_vars

\* every LLM call is bounded by a timeout, so each step of the handler ends
SpecAnswerFair == SpecAnswer /\ WF_vars(AnsNext)

\* the source yielded no answer: None or a blank text
NoAnswer(y) == ~Truthy(y)

C30_Order ==
    \A i, j \in 1..Len(tried) :
        i < j => SourceRank(tried[i].source) < SourceRank(tried[j].source)

C30_OnlyAfterFailure ==
    \A i \in 1..(Len(tried) - 1) : NoAnswer(tried[i].yield)

C30_Response ==
    /\ apc # "error"
    /\ apc = "done" =>
        /\ answer # <<>>
        /\ answer[1] # <<>>
        /\ tried # <<>>
        /\ answer = tried[Len(tried)].yield

\* C30: with at least one retrieved chunk the answer sources are tried in
\* the order hardcoded, LlamaIndex Gemini, manual Gemini, extractive, a later
\* one only after every earlier one yielded no answer; whichever fail, the
\* request ends with a response whose answer is a non-empty string and never
\* with an error.
C30_FallbackChain ==
    /\ [](C30_Order /\ C30_OnlyAfterFailure /\ C30_Response)
    /\ <>(apc = "done")

\* a response from the extractive fallback after LlamaIndex could not be set
\* up and manual Gemini returned a blank text
C30_Witness ==
    /\ apc = "done"
    /\ Len(tried) = 4
    /\ tried[2].source = "llamaindex" /\ tried[2].yield = <<>>
    /\ tried[3].source = "gemini" /\ tried[3].yield = <<<<" ">>>>
    /\ tried[4].source = "extractive"
    /\ answer = tried[4].yield

=============================================================================
